---- MODULE Spec2Model ----
(***************************************************************************)
(* A model of the healthcare pricing repository: the ETL driver of         *)
(* src/etl.py (HealthcareDataETL) writing the four tables declared in      *)
(* src/models/__init__.py, and the query service of src/app.py.            *)
(*                                                                         *)
(* Text is modelled as a sequence of one-character strings.  The token     *)
(* "DEL" stands for U+007F, a character that is neither printable nor      *)
(* whitespace.  An Optional value is <<>> (None) or <<v>>.                 *)
(***************************************************************************)
EXTENDS Integers, Sequences, FiniteSets, TLC

VARIABLES
    file,        \* the rows of the CSV file at csv_path, in file order
    batch_size,  \* self.batch_size, the chunksize given to pd.read_csv
    durable,     \* the committed content of the store (four tables)
    sess,        \* the transaction opened at etl.py:530-531: its view of the tables
    pc,          \* position of run_etl
    chunkIdx,    \* number of chunks read so far in this run (batch_count)
    batch,       \* ny_batch_data still to be processed by process_batch
    processed,   \* processed_count of the current process_batch call
    errors,      \* error_count of the current process_batch call
    totals,      \* total_processed, total_errors of the run
    rated,       \* self._rated_providers of the ETL object (<<>>: attribute absent)
    hashSeed,    \* the str-hash salt of the running interpreter (PYTHONHASHSEED)
    runNo,       \* number of run_etl calls started
    hist,        \* history: what the runs did, for stating the properties
    req,         \* the request whose handler the query service is running
    pool,        \* the query service: started or not, the sessions get_db made
    call,        \* a call of one of the pure functions: its arguments, its result
    peer,        \* a second ETL process on the same store, while the other one runs
    engine,      \* self.engine of the ETL object: the run that created it, open or
                 \* disposed, and how often dispose() was called on it
    sequences,   \* the sequences of the store's autoincrement id columns
    iteration    \* the iteration of process_batch under way: the await it is at

etlVarsButStore == <<file, batch_size, sess, pc, chunkIdx, batch, processed, errors,
                     totals, rated, hashSeed, runNo, hist, engine, iteration>>
etlVars == <<file, batch_size, durable, sess, pc, chunkIdx, batch, processed, errors,
             totals, rated, hashSeed, runNo, hist, engine, sequences, iteration>>
vars == <<file, batch_size, durable, sess, pc, chunkIdx, batch, processed, errors,
          totals, rated, hashSeed, runNo, hist, req, pool, call, peer, engine, sequences,
          iteration>>

(***************************************************************************)
(* Bounds of the model.                                                    *)
(***************************************************************************)
MaxRows == 2      \* rows in the input file
MaxRuns == 2      \* run_etl calls in one behaviour

None == <<>>
Some(x) == <<x>>
IsNone(o) == o = <<>>
Val(o) == o[1]

(***************************************************************************)
(* Characters and the str methods the cleaners use.                        *)
(***************************************************************************)
LowerSeq == <<"a","b","c","d","e","f","g","h","i","j","k","l","m",
              "n","o","p","q","r","s","t","u","v","w","x","y","z">>
UpperSeq == <<"A","B","C","D","E","F","G","H","I","J","K","L","M",
              "N","O","P","Q","R","S","T","U","V","W","X","Y","Z">>
Lower == {LowerSeq[i] : i \in DOMAIN LowerSeq}
Upper == {UpperSeq[i] : i \in DOMAIN UpperSeq}
Digit == {"0","1","2","3","4","5","6","7","8","9"}
Whitespace == {" ", "\t", "\n"}
NonPrintable == {"DEL"}

IsSpace(c) == c \in Whitespace
IsPrintable(c) == c \notin NonPrintable /\ c \notin {"\t", "\n"}
IsDigit(c) == c \in Digit
IsAlnum(c) == c \in Digit \/ c \in Lower \/ c \in Upper
IsCased(c) == c \in Lower \/ c \in Upper

IndexIn(seq, c) == CHOOSE i \in DOMAIN seq : seq[i] = c
UpperChar(c) == IF c \in Lower THEN UpperSeq[IndexIn(LowerSeq, c)] ELSE c
LowerChar(c) == IF c \in Upper THEN LowerSeq[IndexIn(UpperSeq, c)] ELSE c

\* str.upper()
StrUpper(s) == [i \in DOMAIN s |-> UpperChar(s[i])]

\* s[:n]
Prefix(s, n) == IF Len(s) <= n THEN s ELSE SubSeq(s, 1, n)

RECURSIVE LStrip(_)
LStrip(s) == IF s # <<>> /\ IsSpace(Head(s)) THEN LStrip(Tail(s)) ELSE s

RECURSIVE RStrip(_)
RStrip(s) == IF s # <<>> /\ IsSpace(s[Len(s)]) THEN RStrip(SubSeq(s, 1, Len(s) - 1)) ELSE s

\* str.strip()
Strip(s) == RStrip(LStrip(s))

\* ' '.join(text.split()): every whitespace run becomes one space, none at the ends
RECURSIVE JoinSplitFrom(_, _)
JoinSplitFrom(s, out) ==
    IF s = <<>> THEN RStrip(out)
    ELSE IF IsSpace(Head(s))
         THEN JoinSplitFrom(Tail(s),
                  IF out = <<>> \/ out[Len(out)] = " " THEN out ELSE Append(out, " "))
         ELSE JoinSplitFrom(Tail(s), Append(out, Head(s)))

JoinSplit(s) == JoinSplitFrom(s, <<>>)

\* str.title(): in every run of cased characters the first is upper, the rest lower
RECURSIVE TitleFrom(_, _, _)
TitleFrom(s, out, inWord) ==
    IF s = <<>> THEN out
    ELSE LET c == Head(s) IN
         IF IsCased(c)
         THEN TitleFrom(Tail(s), Append(out, IF inWord THEN LowerChar(c) ELSE UpperChar(c)), TRUE)
         ELSE TitleFrom(Tail(s), Append(out, c), FALSE)

StrTitle(s) == TitleFrom(s, <<>>, FALSE)

\* zeros appended instead of prepended
ZFillRight(s, n) == IF Len(s) >= n THEN s ELSE s \o [k \in 1..(n - Len(s)) |-> "0"]

\* str.zfill(n)
RECURSIVE ZFill(_, _)
ZFill(s, n) == IF Len(s) >= n THEN s ELSE ZFill(<<"0">> \o s, n)

\* s1 in s2
Contains(s2, s1) ==
    \E i \in 0..(Len(s2) - Len(s1)) : SubSeq(s2, i + 1, i + Len(s1)) = s1

(***************************************************************************)
(* A raw cell of a chunk: read_csv with dtype=str gives a str, or the      *)
(* float nan for an absent cell.                                           *)
(***************************************************************************)
Nan == <<"float('nan')">>
StrOfNan == <<"n", "a", "n">>

\* the max_length argument's default (None); 0 is falsy as well
NoMax == 0
NameMax == 255
CityMax == 100
DescMax == 500

clean_text_field(text, max_length) ==
    IF text = <<>> THEN <<>>
    ELSE LET s0 == Strip(IF text = Nan THEN StrOfNan ELSE text)
             s1 == SelectSeq(s0, LAMBDA c : IsPrintable(c) \/ IsSpace(c))
             s2 == JoinSplit(s1)
         IN  IF max_length # 0 /\ Len(s2) > max_length THEN Prefix(s2, max_length) ELSE s2

(***************************************************************************)
(* Record classifier / validator (etl.py:166-314).                         *)
(***************************************************************************)
clean_provider_data(row) ==
    LET provider_id == clean_text_field(row.Rndrng_Prvdr_CCN, NoMax)
        provider_name == clean_text_field(row.Rndrng_Prvdr_Org_Name, NameMax)
        provider_city == clean_text_field(row.Rndrng_Prvdr_City, CityMax)
        provider_state == clean_text_field(row.Rndrng_Prvdr_State_Abrvtn, NoMax)
        zip0 == clean_text_field(row.Rndrng_Prvdr_Zip5, NoMax)
        digits == SelectSeq(zip0, IsDigit)
    IN  IF <<>> \in {provider_id, provider_name, provider_city, provider_state, zip0}
        THEN None
        ELSE Some([provider_id |-> provider_id,
                   provider_name |-> provider_name,
                   provider_city |-> StrTitle(provider_city),
                   provider_state |-> Prefix(StrUpper(provider_state), 2),
                   provider_zip_code |-> IF Len(digits) < 5 THEN ZFill(digits, 5)
                                         ELSE Prefix(digits, 5)])

clean_procedure_data(row) ==
    LET code0 == clean_text_field(row.DRG_Cd, NoMax)
        ms_drg_description == clean_text_field(row.DRG_Desc, DescMax)
    IN  IF code0 = <<>> \/ ms_drg_description = <<>>
        THEN None
        ELSE Some([ms_drg_code |-> SelectSeq(code0, IsAlnum),
                   ms_drg_description |-> ms_drg_description])

DigitVal(c) == CHOOSE n \in 0..9 : <<"0","1","2","3","4","5","6","7","8","9">>[n + 1] = c

RECURSIVE ParseDigits(_, _)
ParseDigits(s, acc) ==
    IF s = <<>> THEN acc ELSE ParseDigits(Tail(s), 10 * acc + DigitVal(Head(s)))

\* float(value) for text over digits, "$", ",", whitespace and letters without a
\* float reading: a run of digits is a number, anything else raises ValueError
clean_numeric(value) ==
    IF value = Nan \/ value = <<>> THEN None
    ELSE LET v == Strip(SelectSeq(value, LAMBDA c : c \notin {"$", ","}))
         IN  IF v = <<>> THEN None
             ELSE IF \A i \in DOMAIN v : IsDigit(v[i]) THEN Some(ParseDigits(v, 0))
             ELSE None

MeasureKeys == {"total_discharges", "average_covered_charges",
                "average_total_payments", "average_medicare_payments"}

clean_financial_data(row) ==
    LET fd == [total_discharges |-> clean_numeric(row.Tot_Dschrgs),
               average_covered_charges |-> clean_numeric(row.Avg_Submtd_Cvrd_Chrg),
               average_total_payments |-> clean_numeric(row.Avg_Tot_Pymt_Amt),
               average_medicare_payments |-> clean_numeric(row.Avg_Mdcr_Pymt_Amt)]
    IN  IF \A k \in MeasureKeys : IsNone(fd[k]) THEN None ELSE Some(fd)

\* etl.py:306-307 without .strip().upper()
filter_ny_providers_exact(batch_data) ==
    SelectSeq(batch_data, LAMBDA row : row.Rndrng_Prvdr_State_Abrvtn = <<"N", "Y">>)

filter_ny_providers(batch_data) ==
    SelectSeq(batch_data,
        LAMBDA row :
            LET cell == row.Rndrng_Prvdr_State_Abrvtn
                state == StrUpper(Strip(IF cell = Nan THEN StrOfNan ELSE cell))
            IN  state = <<"N", "Y">>)

(***************************************************************************)
(* Mock rating (etl.py:316-330): random.seed(hash(provider_id) % 2**32),   *)
(* then random.randint(1, 10).  The hash of a str is salted per            *)
(* interpreter; the table holds the values CPython 3.11 computes for the   *)
(* provider ids of the sample rows under PYTHONHASHSEED = 0, 1, 2.         *)
(***************************************************************************)
RatingMin == 1
RatingMax == 10
HashSeeds == {0, 1}

MockRatingTable(seed, provider_id) ==
    CASE seed = 0 /\ provider_id = <<"3">> -> 10
      [] seed = 0 /\ provider_id = <<"4">> -> 1
      [] seed = 1 /\ provider_id = <<"3">> -> 7
      [] seed = 1 /\ provider_id = <<"4">> -> 3
      [] seed = 2 /\ provider_id = <<"3">> -> 9
      [] seed = 2 /\ provider_id = <<"4">> -> 3

\* random.randint(1, 11)
generate_mock_rating_wide(seed, provider_id) == MockRatingTable(seed, provider_id) + 1

generate_mock_rating(seed, provider_id) == MockRatingTable(seed, provider_id)

(***************************************************************************)
(* The store: four tables (models/__init__.py), each a set of rows.  Only  *)
(* providers has its natural key as primary key; procedures,               *)
(* provider_procedures and ratings have a surrogate autoincrement id and   *)
(* no unique constraint on their natural keys.                             *)
(***************************************************************************)
EmptyStore == [providers |-> {}, procedures |-> {}, provider_procedures |-> {},
               ratings |-> {}]

\* the sequences behind the autoincrement id columns (models/__init__.py:27,
\* 39, 56): the next value of each.  A sequence belongs to the store, not to a
\* transaction: two transactions draw from the same one, and a value drawn by a
\* transaction that is rolled back is not given back
NoSeq == [procedures |-> 1, provider_procedures |-> 1, ratings |-> 1]

\* the unit of work of one AsyncSession: t is its view of the tables (the
\* rows the transaction has sent included), base the committed content that
\* view was last read from, pending the object session.add() holds and has not
\* sent yet, last the id the store returned for the latest INSERT, broken that a
\* failed flush has rolled the transaction back, after which every use of the
\* session raises PendingRollbackError
BeginSession(d) ==
    [t |-> d, base |-> d, pending |-> None, last |-> 0, broken |-> FALSE]

\* session.add(row) on table k (etl.py:357, 385, 426, 458): nothing is sent
Added(s, k, row) == [s EXCEPT !.pending = Some([k |-> k, row |-> row])]

\* the primary key of a row of table k (models/__init__.py:12, 27, 39, 56)
KeyOf(k, r) == IF k = "providers" THEN r.provider_id ELSE r.id

\* the rows of table k the transaction of s wrote
Written(s, k) == s.t[k] \ s.base[k]

\* the view of a statement run at isolation level READ COMMITTED (the default
\* of the store): what is committed by now, d, under the transaction's writes
Refreshed(s, d) ==
    IF s.base = d THEN s
    ELSE [s EXCEPT !.base = d,
                   !.t = [k \in DOMAIN d |->
                            {r \in d[k] : \A w \in Written(s, k) :
                                             KeyOf(k, w) # KeyOf(k, r)}
                                \cup Written(s, k)]]

\* the INSERT of a Provider fails on the primary key (models/__init__.py:12)
\* when a transaction has committed that provider_id
DuplicateKey(p, d) ==
    /\ p.k = "providers"
    /\ \E r \in d.providers : r.provider_id = p.row.provider_id

\* the four measures of a ProviderProcedure are NOT NULL
\* (models/__init__.py:42-45)
NotNull(p) ==
    p.k = "provider_procedures" => \A m \in MeasureKeys : ~IsNone(p.row[m])

\* the session after a flush that raised: the transaction is rolled back
Broken(d) == [BeginSession(d) EXCEPT !.broken = TRUE]

\* the autoflush: the INSERT of the pending object.  The id comes from the
\* sequence of the table when the statement runs, and is drawn whether or not
\* the row is accepted
Flush(s, sq, d) ==
    IF s.broken \/ IsNone(s.pending) THEN [s |-> s, seq |-> sq, ok |-> ~s.broken]
    ELSE LET p == Val(s.pending)
             id == IF p.k = "providers" THEN 0 ELSE sq[p.k]
             drawn == IF p.k = "providers" THEN sq ELSE [sq EXCEPT ![p.k] = @ + 1]
             sent == IF p.k = "providers" THEN p.row ELSE [p.row EXCEPT !.id = id]
         IN  IF DuplicateKey(p, d) \/ ~NotNull(p)
             THEN [s |-> Broken(d), seq |-> drawn, ok |-> FALSE]
             ELSE [s |-> [s EXCEPT !.t[p.k] = @ \cup {sent}, !.pending = None,
                                   !.last = id],
                   seq |-> drawn, ok |-> TRUE]

\* session.execute(select ...) once the autoflush is done: the statement itself
Execute(s, d) ==
    IF s.broken THEN [s |-> s, ok |-> FALSE]
    ELSE [s |-> Refreshed(s, d), ok |-> TRUE]

\* a query that raised: nothing is returned
Raised(s) == [s |-> s, ok |-> FALSE]

\* the WHERE clause of etl.py:344
FindProvider(t, provider_id) == {p \in t.providers : p.provider_id = provider_id}

\* etl.py:348-353 without the setattr loop: an existing provider is returned
\* as it is
ProviderFoundKept(e, found, provider_data) ==
    IF ~e.ok \/ Cardinality(found) > 1 THEN Raised(e.s)
    ELSE [s |-> IF found = {} THEN Added(e.s, "providers", provider_data) ELSE e.s,
          ok |-> TRUE]

\* etl.py:346-359 on the rows the query found (e: the outcome of the execute);
\* scalar_one_or_none raises on more than one row
ProviderFound(e, found, provider_data) ==
    IF ~e.ok \/ Cardinality(found) > 1 THEN Raised(e.s)
    ELSE [s |-> IF found = {} THEN Added(e.s, "providers", provider_data)
                ELSE [e.s EXCEPT !.t.providers = (@ \ found) \cup {provider_data}],
          ok |-> TRUE]

ProviderQueried(e, provider_data) ==
    ProviderFound(e, FindProvider(e.s.t, provider_data.provider_id), provider_data)

get_or_create_provider(s, d, provider_data) ==
    ProviderQueried(Execute(s, d), provider_data)

\* the WHERE clause of etl.py:373
FindProcedureByDesc(t, procedure_data) ==
    {p \in t.procedures : p.ms_drg_description = procedure_data.ms_drg_description}

FindProcedure(t, procedure_data) ==
    {p \in t.procedures : p.ms_drg_code = procedure_data.ms_drg_code}

NewProcedure(id, procedure_data) ==
    [id |-> id, ms_drg_code |-> procedure_data.ms_drg_code,
     ms_drg_description |-> procedure_data.ms_drg_description]

\* etl.py:377-381 without the assignment of etl.py:379
UpdatedProcedureKept(old, procedure_data) == old

\* etl.py:379
UpdatedProcedure(old, procedure_data) ==
    [old EXCEPT !.ms_drg_description = procedure_data.ms_drg_description]

\* etl.py:383-387 taken whatever the select of etl.py:373-375 found
ProcedureFoundAlwaysNew(e, found, procedure_data) ==
    IF ~e.ok THEN Raised(e.s)
    ELSE [s |-> Added(e.s, "procedures", NewProcedure(0, procedure_data)),
          ok |-> TRUE, id |-> None]

\* etl.py:375-387.  id: procedure.id as upsert_provider_procedure reads it when
\* it builds its query (None for a Procedure that was added and is not flushed
\* yet)
ProcedureFound(e, found, procedure_data) ==
    IF ~e.ok \/ Cardinality(found) > 1 THEN Raised(e.s)
    ELSE IF found = {}
    THEN [s |-> Added(e.s, "procedures", NewProcedure(0, procedure_data)),
          ok |-> TRUE, id |-> None]
    ELSE [s |-> [e.s EXCEPT !.t.procedures = (@ \ found) \cup
                    {UpdatedProcedure(CHOOSE p \in found : TRUE, procedure_data)}],
          ok |-> TRUE, id |-> Some((CHOOSE p \in found : TRUE).id)]

ProcedureQueried(e, procedure_data) ==
    ProcedureFound(e, FindProcedure(e.s.t, procedure_data), procedure_data)

get_or_create_procedure(s, d, procedure_data) ==
    ProcedureQueried(Execute(s, d), procedure_data)

\* etl.py:414-416, one measure: the value the existing row gets
MergeAlways(old, new) == new

MergeMeasure(old, new) == IF ~IsNone(new) THEN new ELSE old

\* etl.py:414-416
UpdatedAssociation(old, financial_data) ==
    [old EXCEPT
        !.total_discharges = MergeMeasure(@, financial_data.total_discharges),
        !.average_covered_charges = MergeMeasure(@, financial_data.average_covered_charges),
        !.average_total_payments = MergeMeasure(@, financial_data.average_total_payments),
        !.average_medicare_payments = MergeMeasure(@, financial_data.average_medicare_payments)]

\* etl.py:421-425
NewAssociation(id, provider_id, procedure_id, financial_data) ==
    [id |-> id, provider_id |-> provider_id, procedure_id |-> procedure_id,
     total_discharges |-> financial_data.total_discharges,
     average_covered_charges |-> financial_data.average_covered_charges,
     average_total_payments |-> financial_data.average_total_payments,
     average_medicare_payments |-> financial_data.average_medicare_payments]

\* the WHERE clause of etl.py:405-408; procedure_id = NULL matches no row
FindAssociation(t, provider_id, procedure_id) ==
    IF IsNone(procedure_id) THEN {}
    ELSE {pp \in t.provider_procedures :
             pp.provider_id = provider_id /\ pp.procedure_id = Val(procedure_id)}

\* procedure.id when etl.py:421-425 reads it: the autoflush of etl.py:409 has
\* sent the INSERT of a Procedure that was added, and the store returned its id
FlushedId(s, procedure_id) ==
    IF IsNone(procedure_id) THEN s.last ELSE Val(procedure_id)

\* etl.py:410-428
AssociationFound(e, found, provider_id, procedure_id, financial_data) ==
    IF ~e.ok \/ Cardinality(found) > 1 THEN Raised(e.s)
    ELSE IF found = {}
    THEN [s |-> Added(e.s, "provider_procedures",
                      NewAssociation(0, provider_id, FlushedId(e.s, procedure_id),
                                     financial_data)),
          ok |-> TRUE]
    ELSE [s |-> [e.s EXCEPT
                    !.t.provider_procedures = (@ \ found) \cup
                        {UpdatedAssociation(CHOOSE pp \in found : TRUE, financial_data)}],
          ok |-> TRUE]

AssociationQueried(e, provider_id, procedure_id, financial_data) ==
    AssociationFound(e, FindAssociation(e.s.t, provider_id, procedure_id),
                     provider_id, procedure_id, financial_data)

upsert_provider_procedure(s, d, provider_id, procedure_id, financial_data) ==
    AssociationQueried(Execute(s, d), provider_id, procedure_id, financial_data)

\* the WHERE clause of etl.py:443
FindRating(t, provider_id) == {r \in t.ratings : r.provider_id = provider_id}

\* etl.py:445-460
RatingFound(e, found, provider_id, rating_value) ==
    IF ~e.ok \/ Cardinality(found) > 1 THEN Raised(e.s)
    ELSE IF found = {}
    THEN [s |-> Added(e.s, "ratings",
                      [id |-> 0, provider_id |-> provider_id, rating |-> rating_value]),
          ok |-> TRUE]
    ELSE [s |-> [e.s EXCEPT !.t.ratings = (@ \ found) \cup
                    {[(CHOOSE r \in found : TRUE) EXCEPT !.rating = rating_value]}],
          ok |-> TRUE]

RatingQueried(e, provider_id, rating_value) ==
    RatingFound(e, FindRating(e.s.t, provider_id), provider_id, rating_value)

upsert_rating(s, d, provider_id, rating_value) ==
    RatingQueried(Execute(s, d), provider_id, rating_value)

(***************************************************************************)
(* One iteration of the loop of process_batch (etl.py:476-508), cut at its *)
(* awaits: the coroutine is suspended at each session.execute, the other   *)
(* process runs meanwhile and the task can be cancelled there.  at says    *)
(* which await the iteration has reached, provider which provider          *)
(* get_or_create_provider returned, procedure the id of the Procedure      *)
(* get_or_create_procedure returned (None when it was added), rating the   *)
(* value of rating_value once etl.py:499 has set it.  A result says        *)
(* whether the iteration is over (done), whether it reached                *)
(* processed_count += 1 (ok; otherwise error_count += 1) and which rating  *)
(* the stretch of code generated for its provider (gen).                   *)
(***************************************************************************)
NoRow == [at |-> "provider", provider |-> None, procedure |-> None, rating |-> None]

RowResult(s, rt, w, done, ok, gen) ==
    [s |-> s, rated |-> rt, row |-> w, done |-> done, ok |-> ok, gen |-> gen]

\* etl.py:505-508: an exception inside the try block
RowRaised(s, rt, w) == RowResult(s, rt, w, TRUE, FALSE, None)

\* etl.py:495-496
RatedSet(rt) == IF IsNone(rt) THEN {} ELSE Val(rt)

\* etl.py:498
AlreadyRatedNever(ratedSet, provider_id) == FALSE

AlreadyRated(ratedSet, provider_id) == provider_id \in ratedSet

\* etl.py:500-503, u: the outcome of upsert_rating
RowRated(u, rt, w, provider_id) ==
    RowResult(u.s, Some(IF u.ok THEN RatedSet(rt) \cup {provider_id} ELSE RatedSet(rt)),
              w, TRUE, u.ok, None)

\* etl.py:500-503: upsert_rating from the answer of its SELECT (etl.py:444)
\* on, with the rating_value etl.py:499 generated
RowRating(s, d, rt, w, provider_id) ==
    RowRated(upsert_rating(s, d, provider_id, Val(w.rating)), rt, w, provider_id)

\* etl.py:499-500: the rating is generated, then upsert_rating is called and
\* awaits its SELECT
RowGenerated(s, rt, w, rating_value) ==
    RowResult(s, rt, [w EXCEPT !.at = "rating", !.rating = Some(rating_value)],
              FALSE, TRUE, Some(rating_value))

\* etl.py:492-500 and 503, c: the outcome of upsert_provider_procedure
RowAssociation(c, rt, seed, w, provider_id) ==
    IF ~c.ok THEN RowRaised(c.s, rt, w)
    ELSE IF AlreadyRated(RatedSet(rt), provider_id)
    THEN RowResult(c.s, Some(RatedSet(rt)), w, TRUE, TRUE, None)
    ELSE RowGenerated(c.s, Some(RatedSet(rt)), w,
                      generate_mock_rating(seed, provider_id))

\* etl.py:489, b: the outcome of get_or_create_procedure
RowProcedure(b, rt, w) ==
    IF ~b.ok THEN RowRaised(b.s, rt, w)
    ELSE RowResult(b.s, rt, [w EXCEPT !.at = "association", !.procedure = b.id],
                   FALSE, TRUE, None)

\* etl.py:488, a: the outcome of get_or_create_provider
RowProvider(a, rt, w, provider_data) ==
    IF ~a.ok THEN RowRaised(a.s, rt, w)
    ELSE RowResult(a.s, rt,
                   [w EXCEPT !.at = "procedure", !.provider = Some(provider_data)],
                   FALSE, TRUE, None)

\* etl.py:484-485 with processed_count += 1 in the place of error_count += 1
RowRejectedCounted(s, rt) == RowResult(s, rt, NoRow, TRUE, TRUE, None)

\* etl.py:484-485: error_count += 1; continue
RowRejected(s, rt) == RowResult(s, rt, NoRow, TRUE, FALSE, None)

\* etl.py:483-485: the three extractions must all succeed
RowAccepted(provider_data, procedure_data, financial_data) ==
    ~IsNone(provider_data) /\ ~IsNone(procedure_data) /\ ~IsNone(financial_data)

\* etl.py:479-488
RowCleaned(s, d, rt, w, provider_data, procedure_data, financial_data) ==
    IF ~RowAccepted(provider_data, procedure_data, financial_data)
    THEN RowRejected(s, rt)
    ELSE RowProvider(get_or_create_provider(s, d, Val(provider_data)), rt, w,
                     Val(provider_data))

\* the iteration for input row r from the await w.at up to the next one
RowStep(s, d, rt, seed, r, w) ==
    IF w.at = "provider"
    THEN RowCleaned(s, d, rt, w, clean_provider_data(r), clean_procedure_data(r),
                    clean_financial_data(r))
    ELSE IF w.at = "procedure"
    THEN RowProcedure(get_or_create_procedure(s, d, Val(clean_procedure_data(r))),
                      rt, w)
    ELSE IF w.at = "association"
    THEN RowAssociation(upsert_provider_procedure(s, d, Val(w.provider).provider_id,
                                                  w.procedure,
                                                  Val(clean_financial_data(r))),
                        rt, seed, w, Val(w.provider).provider_id)
    ELSE RowRating(s, d, rt, w, Val(w.provider).provider_id)

\* the next thing the iteration does is a session.execute: every await but the
\* first of a row that etl.py:483-485 rejects
AtExecute(r, w) ==
    \/ w.at # "provider"
    \/ RowAccepted(clean_provider_data(r), clean_procedure_data(r),
                   clean_financial_data(r))

\* the whole iteration when nothing else runs in between: each statement
\* preceded by its autoflush.  x: the outcome of a statement; f: that of the
\* autoflush before it
RECURSIVE RowFrom(_, _, _, _, _, _, _)
RowAfterStep(x, sq, d, seed, r) ==
    IF x.done THEN [s |-> x.s, seq |-> sq, rated |-> x.rated, ok |-> x.ok]
    ELSE RowFrom(x.s, sq, d, x.rated, seed, r, x.row)

RowAfterFlush(f, d, rt, seed, r, w) ==
    IF ~f.ok THEN [s |-> f.s, seq |-> f.seq, rated |-> rt, ok |-> FALSE]
    ELSE CHOOSE y \in {RowAfterStep(x, f.seq, d, seed, r) :
                          x \in {RowStep(f.s, d, rt, seed, r, w)}} : TRUE

RowFrom(s, sq, d, rt, seed, r, w) ==
    CHOOSE y \in {RowAfterFlush(f, d, rt, seed, r, w) :
                     f \in {IF AtExecute(r, w) THEN Flush(s, sq, d)
                            ELSE [s |-> s, seq |-> sq, ok |-> TRUE]}} : TRUE

process_row(s, sq, d, rt, seed, r) == RowFrom(s, sq, d, rt, seed, r, NoRow)

(***************************************************************************)
(* Input files: up to MaxRows rows, each one of the sample rows.           *)
(***************************************************************************)
Row(st, ccn, name, city, zip, code, desc, dis, cov, tot, mdc) ==
    [Rndrng_Prvdr_State_Abrvtn |-> st, Rndrng_Prvdr_CCN |-> ccn,
     Rndrng_Prvdr_Org_Name |-> name, Rndrng_Prvdr_City |-> city,
     Rndrng_Prvdr_Zip5 |-> zip, DRG_Cd |-> code, DRG_Desc |-> desc,
     Tot_Dschrgs |-> dis, Avg_Submtd_Cvrd_Chrg |-> cov,
     Avg_Tot_Pymt_Amt |-> tot, Avg_Mdcr_Pymt_Amt |-> mdc]

AcceptedRows == {
    \* complete row: provider 3, procedure 1
    Row(<<"N","Y">>, <<"3">>, <<"A">>, <<"a","b">>, <<"1","2","3">>, <<"1">>, <<"h">>,
        <<"5">>, <<"$","1",",","0">>, <<"7">>, <<"8">>),
    \* same provider and procedure, other name and description, one measure only
    Row(<<"n","y">>, <<"3">>, <<"B">>, <<"a","b">>, <<"1","2","3","4","5","6">>, <<"1">>, <<"k">>,
        Nan, <<"9">>, Nan, <<"x">>),
    \* complete row: provider 4, procedure 1, a measure of 0
    Row(<<" ","N","y"," ">>, <<"4">>, <<"C">>, <<"c">>, <<"1","-","2">>, <<"1">>, <<"h">>,
        <<"0">>, <<"2">>, <<"3">>, <<"4">>),
    \* complete row: provider 3, procedure 2
    Row(<<"N","Y">>, <<" ","3"," ">>, <<"A">>, <<"a","b">>, <<"1","2","3">>, <<"2">>, <<"g">>,
        <<"6">>, <<"6">>, <<"6">>, <<"6">>) }

SkippedRows == {
    \* another region
    Row(<<"N","J">>, <<"4">>, <<"D">>, <<"d">>, <<"1","2","3","4","5">>, <<"1">>, <<"h">>,
        <<"1">>, <<"1">>, <<"1">>, <<"1">>),
    \* provider name blank: rejected by clean_provider_data
    Row(<<"N","Y">>, <<"4">>, <<" ">>, <<"c">>, <<"1">>, <<"2">>, <<"g">>,
        <<"1">>, <<"1">>, <<"1">>, <<"1">>) }

SampleRows == AcceptedRows \cup SkippedRows

Files == UNION {[1..n -> SampleRows] : n \in 1..MaxRows}

\* the files the driver is run over more than once
RerunFiles == UNION {[1..n -> AcceptedRows] : n \in 1..MaxRows}

\* the batch_size values the ETL object is constructed with
BatchSizes == {1, 2}

NumChunks == (Len(file) + batch_size - 1) \div batch_size

\* the i-th chunk the iterator of pd.read_csv(chunksize=batch_size) yields
Chunk(i) ==
    SubSeq(file, (i - 1) * batch_size + 1,
           IF i * batch_size < Len(file) THEN i * batch_size ELSE Len(file))

(***************************************************************************)
(* The ETL driver run_etl (etl.py:512-639).                                *)
(***************************************************************************)
\* the event loop of the query service runs no handler
NoRequest == [at |-> "idle"]

\* no call of a pure function
NoCall == [fn |-> "none"]

\* no second process
NoPeer == [pc |-> "none"]

\* etl.py:60: self.engine = None.  run: the run_etl call that created the
\* engine (0: none was created)
NoEngine == [run |-> 0, open |-> FALSE, disposals |-> 0]

\* etl.py:637-639: if self.engine: await self.engine.dispose()
Dispose(e) ==
    IF e.run = 0 THEN e ELSE [e EXCEPT !.open = FALSE, !.disposals = @ + 1]

\* etl.py:637-639 on a path that raises: the await of engine.dispose()
\* completes, or the task is cancelled (the interpreter killed) while it
\* waits there and the engine stays as it is
Finally(e) == IF e.run = 0 THEN {e} ELSE {Dispose(e), e}

\* etl.py:633-635: except Exception logs and raises again; an exception that
\* is not an Exception passes through.  at: where the exception ended the
\* run ("no": nowhere)
Reraised(at) == IF at = "no" THEN "CLOSED" ELSE "FAILED"

\* state: whether startup_event has run; reachable: whether the store answers;
\* made: how many sessions session_factory() has made; open, closed: the
\* sessions not yet closed, and closed; translating: the POST /ask requests
\* suspended at the await of app.py:325; executing: the requests suspended at
\* an await of db.execute (app.py:261, 339); closing: the requests whose
\* handler has returned and whose get_db awaits session.close() (app.py:95)
NoPool == [state |-> "not_started", reachable |-> TRUE, made |-> 0, open |-> {},
           closed |-> {}, translating |-> {}, executing |-> {}, closing |-> {}]

\* a store: the committed rows and the sequences
Store(d, sq) == [tables |-> d, seq |-> sq]

InitWith(files, peers, stores) ==
    /\ file \in files
    /\ peer \in peers
    /\ batch_size \in BatchSizes
    /\ \E store \in stores : durable = store.tables /\ sequences = store.seq
    /\ sess = BeginSession(durable)
    /\ iteration = NoRow
    /\ pc = "NOT_STARTED"
    /\ chunkIdx = 0
    /\ batch = <<>>
    /\ processed = 0
    /\ errors = 0
    /\ totals = [processed |-> 0, errors |-> 0]
    /\ rated = None
    /\ hashSeed \in HashSeeds
    /\ runNo = 0
    /\ hist = [startDurable |-> durable, prevCompleted |-> FALSE, whole |-> TRUE,
               commits |-> 0,
               lastGen |-> None, failedAt |-> "no", abandoned |-> {},
               overlap |-> FALSE, errWrote |-> {}, okWrote |-> {}]
    /\ req = NoRequest
    /\ pool = NoPool
    /\ call = NoCall
    /\ engine = NoEngine

Init == InitWith(Files, {NoPeer}, {Store(EmptyStore, NoSeq)})

InitRerun == InitWith(RerunFiles, {NoPeer}, {Store(EmptyStore, NoSeq)})

\* hist.whole: no chunk of the run was abandoned; hist.prevCompleted: the run
\* before this one ended normally with no chunk abandoned
\* hist.lastGen names the provider the step generated a rating for
\* hist.failedAt: where the exception that ended the run was raised
\* hist.abandoned: the chunks of the run that were abandoned
\* hist.overlap: the other process had its transaction open when this run
\* opened its own
\* hist.okWrote, hist.errWrote: the Provider rows get_or_create_provider wrote
\* for the rows of the run that were counted as processed, and for those that
\* were counted as errors after it had returned
NoGen == [hist EXCEPT !.lastGen = None]

\* what every way of ending a run leaves behind: the session is closed; the
\* counts, locals of run_etl, are logged only by a run that completes; the
\* finally clause awaits the dispose of the engine
EndOfRun(at) ==
    /\ pc' = Reraised(at)
    /\ chunkIdx' = IF Reraised(at) = "FAILED" THEN 0 ELSE chunkIdx
    /\ totals' = IF Reraised(at) = "FAILED" THEN [processed |-> 0, errors |-> 0]
                 ELSE totals
    /\ sess' = BeginSession(durable')
    /\ batch' = <<>>
    /\ processed' = 0
    /\ errors' = 0
    /\ hist' = [hist EXCEPT !.lastGen = None, !.failedAt = at]
    /\ engine' \in IF Reraised(at) = "FAILED" THEN Finally(engine) ELSE {Dispose(engine)}
    /\ iteration' = NoRow

\* initialize_database (etl.py:63-88) on the ETL object whose engine attribute
\* is old: create_async_engine raises (outcome "create": the driver is missing,
\* the URL is malformed) and self.engine stays what it was, or the engine is
\* created and the round trip of etl.py:75-76 fails ("connect": the store is
\* unreachable) or succeeds.  A failure reaches the except and the finally
\* clause of run_etl (etl.py:633-639).
Connect(old) ==
    \E outcome \in {"connected", "connect", "create"} :
        /\ pc' = IF outcome = "connected" THEN "CONNECTED" ELSE Reraised(outcome)
        /\ engine' \in IF outcome = "create" THEN Finally(old)
                       ELSE IF outcome = "connect"
                       THEN Finally([run |-> runNo + 1, open |-> TRUE, disposals |-> 0])
                       ELSE {[run |-> runNo + 1, open |-> TRUE, disposals |-> 0]}
        /\ hist' = [hist EXCEPT !.startDurable = durable, !.commits = 0, !.lastGen = None,
                                !.prevCompleted = (pc = "CLOSED" /\ hist.whole),
                                !.whole = TRUE, !.abandoned = {}, !.overlap = FALSE,
                                !.errWrote = {}, !.okWrote = {},
                                !.failedAt = IF outcome = "connected" THEN "no" ELSE outcome]
        /\ runNo' = runNo + 1
        /\ chunkIdx' = 0
        /\ totals' = [processed |-> 0, errors |-> 0]
        /\ UNCHANGED <<file, batch_size, durable, sess, batch, processed, errors, req,
                       pool, call, peer, sequences, iteration>>

\* main() constructs the ETL object and calls run_etl (etl.py:642-652)
StartRun ==
    /\ pc = "NOT_STARTED"
    /\ UNCHANGED <<rated, hashSeed>>
    /\ Connect(engine)

\* run_etl is called once more: on the same ETL object, or on a new object, by
\* main() in a new interpreter (whose hash salt may be the same)
Rerun ==
    /\ pc \in {"CLOSED", "FAILED"}
    /\ runNo < MaxRuns
    /\ \/ UNCHANGED <<rated, hashSeed>> /\ Connect(engine)
       \/ rated' = None /\ hashSeed' \in HashSeeds /\ Connect(NoEngine)

\* run_etl without the call of initialize_database (etl.py:518)
OpenStreamUnverified ==
    /\ pc = "NOT_STARTED"
    /\ pc' = "STREAMING"
    /\ sess' = BeginSession(durable)
    /\ hist' = NoGen
    /\ UNCHANGED <<file, batch_size, durable, chunkIdx, batch, processed, errors,
                   totals, rated, hashSeed, runNo, req, pool, call, peer, engine,
                   sequences, iteration>>

\* etl.py:522-583: the file exists, the session and its transaction are opened,
\* the chunk iterator is created
OpenStream ==
    /\ pc = "CONNECTED"
    /\ pc' = "STREAMING"
    /\ sess' = BeginSession(durable)
    /\ hist' = [hist EXCEPT !.lastGen = None,
                            !.overlap = peer.pc \in {"STREAMING", "FILTERING", "PROCESSING"}]
    /\ UNCHANGED <<file, batch_size, durable, chunkIdx, batch, processed, errors,
                   totals, rated, hashSeed, runNo, req, pool, call, peer, engine,
                   sequences, iteration>>

\* etl.py:584-586: the iterator yields the next chunk
ReadChunk ==
    /\ pc = "STREAMING"
    /\ chunkIdx < NumChunks
    /\ chunkIdx' = chunkIdx + 1
    /\ pc' = "FILTERING"
    /\ hist' = NoGen
    /\ UNCHANGED <<file, batch_size, durable, sess, batch, processed, errors, totals,
                   rated, hashSeed, runNo, req, pool, call, peer, engine,
                   sequences, iteration>>

\* etl.py:584: the iterator raises while it reads the next chunk (a decode or
\* parse failure); the for statement is outside the try of etl.py:588, the
\* exception reaches the except of etl.py:633
ReadChunkRaises ==
    /\ pc = "STREAMING"
    /\ chunkIdx < NumChunks
    /\ UNCHANGED durable
    /\ EndOfRun("read")
    /\ UNCHANGED <<file, batch_size, rated, hashSeed, runNo, req, pool, call, peer, sequences>>

\* etl.py:588-599: the chunk's rows of region NY; a chunk without any is skipped
FilterChunk ==
    /\ pc = "FILTERING"
    /\ LET ny_batch_data == filter_ny_providers(Chunk(chunkIdx))
       IN  /\ batch' = ny_batch_data
           /\ pc' = IF ny_batch_data = <<>> THEN "STREAMING" ELSE "PROCESSING"
    /\ processed' = 0
    /\ errors' = 0
    /\ hist' = NoGen
    /\ UNCHANGED <<file, batch_size, durable, sess, chunkIdx, totals, rated,
                   hashSeed, runNo, req, pool, call, peer, engine,
                   sequences, iteration>>

\* etl.py:617-623: an exception while the chunk is handled abandons the chunk
AbandonChunk ==
    /\ pc = "FILTERING"
    /\ pc' = "STREAMING"
    /\ hist' = [hist EXCEPT !.lastGen = None, !.whole = FALSE,
                            !.abandoned = @ \cup {chunkIdx}]
    /\ UNCHANGED <<file, batch_size, durable, sess, chunkIdx, batch, processed,
                   errors, totals, rated, hashSeed, runNo, req, pool, call, peer, engine,
                   sequences, iteration>>

\* the Provider get_or_create_provider returned for the iteration, if it did
ProviderWritten(w) == IF IsNone(w.provider) THEN {} ELSE {Val(w.provider)}

\* the provider the stretch of code with outcome r generated a rating for
GeneratedFor(r) ==
    IF IsNone(r.gen) THEN None
    ELSE Some(Val(clean_provider_data(Head(batch))).provider_id)

\* r: the outcome of the row; last: it was the batch's last row, process_batch
\* returns and run_etl adds its counts (etl.py:602-605)
RowDone(r, p, e, last) ==
    /\ sess' = r.s
    /\ rated' = r.rated
    /\ batch' = Tail(batch)
    /\ hist' = [hist EXCEPT
                   !.lastGen = GeneratedFor(r),
                   !.okWrote = @ \cup (IF r.ok THEN ProviderWritten(r.row) ELSE {}),
                   !.errWrote = @ \cup (IF r.ok THEN {} ELSE ProviderWritten(r.row))]
    /\ iteration' = NoRow
    /\ processed' = IF last THEN 0 ELSE p
    /\ errors' = IF last THEN 0 ELSE e
    /\ totals' = IF last THEN [processed |-> totals.processed + p,
                               errors |-> totals.errors + e]
                 ELSE totals
    /\ pc' = IF last THEN "STREAMING" ELSE "PROCESSING"

\* etl.py:505 placed before the try of etl.py:477: every row adds to
\* processed_count, a row that raises adds to error_count as well
RowCountedEarly(r) ==
    RowDone(r, processed + 1, errors + (IF r.ok THEN 0 ELSE 1), Tail(batch) = <<>>)

RowCounted(r) ==
    RowDone(r, processed + (IF r.ok THEN 1 ELSE 0), errors + (IF r.ok THEN 0 ELSE 1),
            Tail(batch) = <<>>)

\* etl.py:476-508: the iteration runs from one await to the next, or to its
\* end.  A statement is sent once the autoflush before it is done
ProcessRow ==
    /\ pc = "PROCESSING"
    /\ batch # <<>>
    /\ AtExecute(Head(batch), iteration) => IsNone(sess.pending)
    /\ LET r == RowStep(sess, durable, rated, hashSeed, Head(batch), iteration)
       IN  IF r.done THEN RowCounted(r)
           ELSE /\ sess' = r.s
                /\ rated' = r.rated
                /\ iteration' = r.row
                /\ hist' = [hist EXCEPT !.lastGen = GeneratedFor(r)]
                /\ UNCHANGED <<batch, processed, errors, totals, pc>>
    /\ UNCHANGED <<file, batch_size, durable, chunkIdx, hashSeed, runNo, req, pool, call,
                   peer, engine, sequences>>

\* the commit placed inside the for loop
CommitReachedInLoop == chunkIdx >= 1

\* etl.py:626 is reached when the for loop of etl.py:584 is exhausted
CommitReached == chunkIdx = NumChunks

\* the INSERT of a Provider waits while another transaction has inserted that
\* provider_id and has neither committed nor rolled back
Blocked(p) ==
    /\ peer # NoPeer
    /\ p.k = "providers"
    /\ \E w \in peer.sess.t.providers : w.provider_id = p.row.provider_id
    /\ \A r \in durable.providers : r.provider_id # p.row.provider_id

\* the session is about to send a statement: a session.execute of the
\* iteration under way (etl.py:345, 374, 409, 444), or the commit of etl.py:626
Flushing ==
    \/ pc = "PROCESSING" /\ batch # <<>> /\ AtExecute(Head(batch), iteration)
    \/ pc = "STREAMING" /\ CommitReached

\* the autoflush: the INSERT of the object the session holds.  When it fails
\* inside an iteration the exception is that of the session.execute, and the
\* except clause of etl.py:505-508 counts the row
FlushPending ==
    /\ Flushing
    /\ ~sess.broken
    /\ ~IsNone(sess.pending)
    /\ ~Blocked(Val(sess.pending))
    /\ LET f == Flush(sess, sequences, durable)
       IN  /\ sequences' = f.seq
           /\ IF ~f.ok /\ pc = "PROCESSING"
              THEN RowCounted(RowRaised(f.s, rated, iteration))
              ELSE /\ sess' = f.s
                   /\ hist' = NoGen
                   /\ UNCHANGED <<rated, batch, processed, errors, totals, pc, iteration>>
    /\ UNCHANGED <<file, batch_size, durable, chunkIdx, hashSeed, runNo, req, pool, call,
                   peer, engine>>

\* session.commit() once its flush is done: it raises when the transaction was
\* rolled back before, and the run ends in the except clause of etl.py:633
Commit ==
    /\ pc = "STREAMING"
    /\ CommitReached
    /\ IsNone(sess.pending)
    /\ IF Execute(sess, durable).ok
       THEN /\ durable' = Execute(sess, durable).s.t
            /\ hist' = [hist EXCEPT !.commits = @ + 1, !.lastGen = None]
            /\ pc' = "COMMITTED"
            /\ sess' = BeginSession(Execute(sess, durable).s.t)
            /\ UNCHANGED <<chunkIdx, totals, batch, processed, errors, engine, iteration>>
       ELSE /\ UNCHANGED durable
            /\ EndOfRun("commit")
    /\ UNCHANGED <<file, batch_size, rated, hashSeed, runNo, req, pool, call, peer, sequences>>

\* etl.py:628-639: the counts are logged and the engine is disposed
Close ==
    /\ pc = "COMMITTED"
    /\ UNCHANGED durable
    /\ EndOfRun("no")
    /\ UNCHANGED <<file, batch_size, rated, hashSeed, runNo, req, pool, call, peer, sequences>>

\* any other exception outside the two inner try blocks (the file is missing,
\* the connection is lost, the task is cancelled at an await), or the
\* interpreter is killed.  Before the commit the transaction is rolled back;
\* after it (the exit of the async with blocks of etl.py:530-531) what was
\* committed stays and the counts are not logged
Fail ==
    /\ pc \in {"CONNECTED", "STREAMING", "FILTERING", "PROCESSING", "COMMITTED"}
    /\ UNCHANGED durable
    /\ EndOfRun("elsewhere")
    /\ UNCHANGED <<file, batch_size, rated, hashSeed, runNo, req, pool, call, peer, sequences>>

\* etl.py:637-639 on the path that does not raise: the task is cancelled, or
\* the interpreter killed, while it awaits engine.dispose(): the counts are
\* logged (etl.py:628-631), what was committed stays, the engine is not
\* disposed and run_etl raises
DisposeInterrupted ==
    /\ pc = "COMMITTED"
    /\ pc' = "FAILED"
    /\ hist' = [hist EXCEPT !.lastGen = None, !.failedAt = "dispose"]
    /\ UNCHANGED <<file, batch_size, durable, sess, chunkIdx, batch, processed, errors,
                   totals, rated, hashSeed, runNo, req, pool, call, peer, engine,
                   sequences, iteration>>

Next ==
    \/ StartRun
    \/ OpenStream
    \/ ReadChunk
    \/ ReadChunkRaises
    \/ FilterChunk
    \/ AbandonChunk
    \/ ProcessRow
    \/ FlushPending
    \/ Commit
    \/ Close
    \/ Fail
    \/ DisposeInterrupted

Spec == Init /\ [][Next]_vars

(***************************************************************************)
(* Two ETL processes on one store, each run once over its own file.  The   *)
(* variables of the driver are those of the process that takes the next    *)
(* step, peer holds those of the other one; the store is shared.           *)
(***************************************************************************)
\* the files of the two processes: one complete row each
RaceFiles == {<<r>> : r \in {x \in AcceptedRows : ~IsNone(clean_numeric(x.Tot_Dschrgs))}}

\* the other process, not started
RacePeers ==
    {[file |-> f, batch_size |-> 1, sess |-> BeginSession(EmptyStore),
      pc |-> "NOT_STARTED", chunkIdx |-> 0, batch |-> <<>>, processed |-> 0,
      errors |-> 0, totals |-> [processed |-> 0, errors |-> 0], rated |-> None,
      hashSeed |-> h, runNo |-> 0, engine |-> NoEngine, row |-> NoRow,
      hist |-> [startDurable |-> EmptyStore, prevCompleted |-> FALSE, whole |-> TRUE,
                commits |-> 0, lastGen |-> None, failedAt |-> "no", abandoned |-> {},
                overlap |-> FALSE, errWrote |-> {}, okWrote |-> {}]] : f \in RaceFiles, h \in HashSeeds}

InitRace == InitWith(RaceFiles, RacePeers, {Store(EmptyStore, NoSeq)})

\* the operating system runs the other process
Switch ==
    /\ peer # NoPeer
    /\ peer' = [file |-> file, batch_size |-> batch_size, sess |-> sess, pc |-> pc,
                chunkIdx |-> chunkIdx, batch |-> batch, processed |-> processed,
                errors |-> errors, totals |-> totals, rated |-> rated,
                hashSeed |-> hashSeed, runNo |-> runNo, hist |-> hist,
                engine |-> engine, row |-> iteration]
    /\ file' = peer.file
    /\ batch_size' = peer.batch_size
    /\ sess' = peer.sess
    /\ pc' = peer.pc
    /\ chunkIdx' = peer.chunkIdx
    /\ batch' = peer.batch
    /\ processed' = peer.processed
    /\ errors' = peer.errors
    /\ totals' = peer.totals
    /\ rated' = peer.rated
    /\ hashSeed' = peer.hashSeed
    /\ runNo' = peer.runNo
    /\ hist' = peer.hist
    /\ engine' = peer.engine
    /\ iteration' = peer.row
    /\ UNCHANGED <<durable, sequences, req, pool, call>>

NextRace ==
    \/ Next
    \/ Switch

SpecRace == InitRace /\ [][NextRace]_vars

\* the stores two processes leave that ran over one row each, of two
\* providers, both from the empty store without seeing what the other wrote,
\* and committed one after the other (a and b: the rows; g and h: the hash
\* salts of the two interpreters)
Ran(r, sq, h) ==
    LET x == process_row(BeginSession(EmptyStore), sq, EmptyStore, None, h, r)
        f == Flush(x.s, x.seq, EmptyStore)
    IN  [s |-> f.s, seq |-> f.seq, ok |-> x.ok /\ f.ok]

\* the first process over each file, and the second one after it
RanFirst ==
    {[row |-> f[1], ran |-> Ran(f[1], NoSeq, g)] : f \in RaceFiles, g \in HashSeeds}

RanSecond(first) ==
    {[row |-> f[1], ran |-> Ran(f[1], first.ran.seq, h)] :
        f \in RaceFiles, h \in HashSeeds}

\* the first process commits, then the second
Raced(first, second) ==
    Store(Refreshed(second.ran.s, first.ran.s.t).t, second.ran.seq)

RacedStores ==
    UNION {{Raced(first, second) :
               second \in {x \in RanSecond(first) :
                              /\ x.ran.ok
                              /\ Val(clean_provider_data(x.row)).provider_id
                                     # Val(clean_provider_data(first.row)).provider_id}} :
              first \in {x \in RanFirst : x.ran.ok}}

\* one run of the driver over a store two racing processes have left
InitAfterRace == InitWith(Files, {NoPeer}, RacedStores)

SpecAfterRace == InitAfterRace /\ [][Next]_vars

\* the driver run up to MaxRuns times, one run after the other, over one file
NextRerun ==
    \/ Next
    \/ Rerun

SpecRerun == InitRerun /\ [][NextRerun]_vars

(***************************************************************************)
(* The query service (app.py).  The handlers are coroutines of one event   *)
(* loop: req is the request whose handler the loop is running; a request   *)
(* suspended at the await of the translator, of db.execute or of           *)
(* session.close() is held in pool.translating, pool.executing or          *)
(* pool.closing until the loop resumes it.                                 *)
(*                                                                         *)
(* The store executes a statement inside the transaction of the request's  *)
(* session; get_db (app.py:89-95) closes the session without a commit,     *)
(* which rolls that transaction back.                                      *)
(***************************************************************************)
\* app.py:328
dangerous_keywords == {
    <<"D","R","O","P">>,
    <<"D","E","L","E","T","E">>,
    <<"I","N","S","E","R","T">>,
    <<"U","P","D","A","T","E">>,
    <<"A","L","T","E","R">>,
    <<"C","R","E","A","T","E">> }

\* app.py:329 with the .upper() left out
IsDangerousCased(sql_query) ==
    \E keyword \in dangerous_keywords : Contains(sql_query, keyword)

\* app.py:329
IsDangerous(sql_query) ==
    \E keyword \in dangerous_keywords : Contains(StrUpper(sql_query), keyword)

\* what the translator may answer, and what the store does with the text when
\* it is executed: "read" returns rows, "truncate_ratings" empties the ratings
\* table, "invalid" is rejected by the store
SampleQueries == {
    [text |-> <<"S","E","L","E","C","T"," ","1">>, effect |-> "read"],
    [text |-> <<"S","E","L","E","C">>, effect |-> "invalid"],
    [text |-> <<"T","R","U","N","C","A","T","E"," ","r">>, effect |-> "truncate_ratings"],
    [text |-> <<"D","R","O","P"," ","T","A","B","L","E"," ","r">>, effect |-> "truncate_ratings"],
    [text |-> <<"d","e","l","e","t","e"," ","r">>, effect |-> "truncate_ratings"],
    [text |-> <<"x",";","U","p","d","a","t","e">>, effect |-> "invalid"],
    [text |-> <<"c","r","e","a","t","e","d">>, effect |-> "read"] }

Questions == {<<"q","1">>, <<"q","2">>}

RefusalMessage == "Sorry, I can only answer read-only questions about healthcare data."
RephraseMessage == "Sorry, I couldn't execute that query. Please try rephrasing your question."

\* app.py:330-335
RefusalResponse(question) ==
    [status |-> 200, question |-> question, sql_query |-> <<>>, results |-> {},
     message |-> RefusalMessage]

\* app.py:358-363 with the query text dropped
ExecutionFailedNoQuery(question, sql_query) ==
    [status |-> 200, question |-> question, sql_query |-> <<>>, results |-> {},
     message |-> RephraseMessage]

\* app.py:358-363
ExecutionFailedResponse(question, sql_query) ==
    [status |-> 200, question |-> question, sql_query |-> sql_query, results |-> {},
     message |-> RephraseMessage]

\* app.py:354, 365-370
ResultsResponse(question, sql_query, results) ==
    [status |-> 200, question |-> question, sql_query |-> sql_query,
     results |-> results, message |-> <<"Found", Cardinality(results), "results">>]

\* app.py:304-306, 372-374
InternalError == [status |-> 500, detail |-> "Internal server error"]

\* the rows a read statement returns (here: the ratings table)
RowsOf(view) == {[provider_id |-> r.provider_id, rating |-> r.rating] : r \in view.ratings}

\* the session's view of the tables after the store executed the statement
Executed(view, effect) ==
    IF effect = "truncate_ratings" THEN [view EXCEPT !.ratings = {}] ELSE view

\* what closing the session would leave in the store if get_db
\* committed before it closes
CloseSessionCommitting(d, view) == view

\* app.py:91-95: the session is closed without a commit
CloseSession(d, view) == d

(***************************************************************************)
(* GET /providers (app.py:98-126, 215-306).  Coordinates are in 1/10000 of *)
(* a degree.  A distance is held as the pair of the float's value in units *)
(* of 1/10000 of a metre, rounded up (so that distance <= radius_km is     *)
(* exact for a radius given in the same units), and round(distance, 2) in  *)
(* hundredths of a kilometre; the table holds what CPython computes.       *)
(***************************************************************************)
\* app.py:116-125
zip_coords == {
    [zip |-> <<"1","0","0","0","1">>, coords |-> <<407505, -739934>>],
    [zip |-> <<"1","0","0","0","2">>, coords |-> <<407174, -739897>>],
    [zip |-> <<"1","0","0","0","3">>, coords |-> <<407323, -739894>>],
    [zip |-> <<"1","1","2","0","1">>, coords |-> <<406943, -739903>>],
    [zip |-> <<"1","1","2","1","5">>, coords |-> <<406622, -739874>>],
    [zip |-> <<"1","0","4","5","1">>, coords |-> <<408200, -739200>>],
    [zip |-> <<"1","1","1","0","1">>, coords |-> <<407505, -739400>>],
    [zip |-> <<"1","0","3","0","1">>, coords |-> <<406415, -740776>>] }

\* app.py:112-126: zip_coords.get(zip_code)
get_zip_coordinates(zip_code) ==
    IF \E e \in zip_coords : e.zip = zip_code
    THEN Some((CHOOSE e \in zip_coords : e.zip = zip_code).coords)
    ELSE None

\* <<from, to, distance rounded up, round(distance, 2)>>
DistanceTable == {
    <<<<407505, -739934>>, <<407505, -739934>>, 0, 0>>,
    <<<<407505, -739934>>, <<407174, -739897>>, 36937317, 369>>,
    <<<<407505, -739934>>, <<407323, -739894>>, 20516138, 205>>,
    <<<<407505, -739934>>, <<406943, -739903>>, 62546132, 625>>,
    <<<<407505, -739934>>, <<406622, -739874>>, 98315293, 983>>,
    <<<<407505, -739934>>, <<408200, -739200>>, 98950467, 990>>,
    <<<<407505, -739934>>, <<407505, -739400>>, 44982424, 450>>,
    <<<<407505, -739934>>, <<406415, -740776>>, 140459841, 1405>>,
    <<<<407174, -739897>>, <<407505, -739934>>, 36937317, 369>>,
    <<<<407174, -739897>>, <<407174, -739897>>, 0, 0>>,
    <<<<407174, -739897>>, <<407323, -739894>>, 16569973, 166>>,
    <<<<407174, -739897>>, <<406943, -739903>>, 25691007, 257>>,
    <<<<407174, -739897>>, <<406622, -739874>>, 61410226, 614>>,
    <<<<407174, -739897>>, <<408200, -739200>>, 128300203, 1283>>,
    <<<<407174, -739897>>, <<407505, -739400>>, 55751704, 558>>,
    <<<<407174, -739897>>, <<406415, -740776>>, 112325801, 1123>>,
    <<<<407323, -739894>>, <<407505, -739934>>, 20516138, 205>>,
    <<<<407323, -739894>>, <<407174, -739897>>, 16569973, 166>>,
    <<<<407323, -739894>>, <<407323, -739894>>, 0, 0>>,
    <<<<407323, -739894>>, <<406943, -739903>>, 42260881, 423>>,
    <<<<407323, -739894>>, <<406622, -739874>>, 77965878, 780>>,
    <<<<407323, -739894>>, <<408200, -739200>>, 113686933, 1137>>,
    <<<<407323, -739894>>, <<407505, -739400>>, 46278152, 463>>,
    <<<<407323, -739894>>, <<406415, -740776>>, 125397369, 1254>>,
    <<<<406943, -739903>>, <<407505, -739934>>, 62546132, 625>>,
    <<<<406943, -739903>>, <<407174, -739897>>, 25691007, 257>>,
    <<<<406943, -739903>>, <<407323, -739894>>, 42260881, 423>>,
    <<<<406943, -739903>>, <<406943, -739903>>, 0, 0>>,
    <<<<406943, -739903>>, <<406622, -739874>>, 35777250, 358>>,
    <<<<406943, -739903>>, <<408200, -739200>>, 151797020, 1518>>,
    <<<<406943, -739903>>, <<407505, -739400>>, 75511717, 755>>,
    <<<<406943, -739903>>, <<406415, -740776>>, 94171871, 942>>,
    <<<<406622, -739874>>, <<407505, -739934>>, 98315293, 983>>,
    <<<<406622, -739874>>, <<407174, -739897>>, 61410226, 614>>,
    <<<<406622, -739874>>, <<407323, -739894>>, 77965878, 780>>,
    <<<<406622, -739874>>, <<406943, -739903>>, 35777250, 358>>,
    <<<<406622, -739874>>, <<406622, -739874>>, 0, 0>>,
    <<<<406622, -739874>>, <<408200, -739200>>, 184424903, 1844>>,
    <<<<406622, -739874>>, <<407505, -739400>>, 106003285, 1060>>,
    <<<<406622, -739874>>, <<406415, -740776>>, 79499177, 795>>,
    <<<<408200, -739200>>, <<407505, -739934>>, 98950467, 990>>,
    <<<<408200, -739200>>, <<407174, -739897>>, 128300203, 1283>>,
    <<<<408200, -739200>>, <<407323, -739894>>, 113686933, 1137>>,
    <<<<408200, -739200>>, <<406943, -739903>>, 151797020, 1518>>,
    <<<<408200, -739200>>, <<406622, -739874>>, 184424903, 1844>>,
    <<<<408200, -739200>>, <<408200, -739200>>, 0, 0>>,
    <<<<408200, -739200>>, <<407505, -739400>>, 79093667, 791>>,
    <<<<408200, -739200>>, <<406415, -740776>>, 238810280, 2388>>,
    <<<<407505, -739400>>, <<407505, -739934>>, 44982424, 450>>,
    <<<<407505, -739400>>, <<407174, -739897>>, 55751704, 558>>,
    <<<<407505, -739400>>, <<407323, -739894>>, 46278152, 463>>,
    <<<<407505, -739400>>, <<406943, -739903>>, 75511717, 755>>,
    <<<<407505, -739400>>, <<406622, -739874>>, 106003285, 1060>>,
    <<<<407505, -739400>>, <<408200, -739200>>, 79093667, 791>>,
    <<<<407505, -739400>>, <<407505, -739400>>, 0, 0>>,
    <<<<407505, -739400>>, <<406415, -740776>>, 167771027, 1678>>,
    <<<<406415, -740776>>, <<407505, -739934>>, 140459841, 1405>>,
    <<<<406415, -740776>>, <<407174, -739897>>, 112325801, 1123>>,
    <<<<406415, -740776>>, <<407323, -739894>>, 125397369, 1254>>,
    <<<<406415, -740776>>, <<406943, -739903>>, 94171871, 942>>,
    <<<<406415, -740776>>, <<406622, -739874>>, 79499177, 795>>,
    <<<<406415, -740776>>, <<408200, -739200>>, 238810280, 2388>>,
    <<<<406415, -740776>>, <<407505, -739400>>, 167771027, 1678>>,
    <<<<406415, -740776>>, <<406415, -740776>>, 0, 0>> }

\* app.py:295 with the coordinates of the first zip of the table in the place
\* of target_coords
calculate_distance_from_first(from, to) ==
    [above |-> (CHOOSE e \in DistanceTable : e[1] = <<407505, -739934>> /\ e[2] = to)[3],
     rounded |-> (CHOOSE e \in DistanceTable : e[1] = <<407505, -739934>> /\ e[2] = to)[4]]

\* app.py:98-110
calculate_distance(from, to) ==
    [above |-> (CHOOSE e \in DistanceTable : e[1] = from /\ e[2] = to)[3],
     rounded |-> (CHOOSE e \in DistanceTable : e[1] = from /\ e[2] = to)[4]]

RECURSIVE LikeMatch(_, _)
\* the ILIKE operator of the store: % matches any run of characters, _ any one
\* character, a backslash takes the next character literally, letters match
\* in either case
LikeMatch(pattern, text) ==
    IF pattern = <<>> THEN text = <<>>
    ELSE IF Head(pattern) = "%"
         THEN LikeMatch(Tail(pattern), text)
              \/ (text # <<>> /\ LikeMatch(pattern, Tail(text)))
    ELSE IF Head(pattern) = "_"
         THEN text # <<>> /\ LikeMatch(Tail(pattern), Tail(text))
    ELSE IF Head(pattern) = "\\" /\ Len(pattern) > 1
         THEN /\ text # <<>>
              /\ LowerChar(pattern[2]) = LowerChar(Head(text))
              /\ LikeMatch(Tail(Tail(pattern)), Tail(text))
    ELSE /\ text # <<>>
         /\ LowerChar(Head(pattern)) = LowerChar(Head(text))
         /\ LikeMatch(Tail(pattern), Tail(text))

\* app.py:253-258: the procedures the drg filter keeps
DrgMatches(q, drg) ==
    \/ drg = <<>>
    \/ (\A i \in DOMAIN drg : IsDigit(drg[i])) /\ q.ms_drg_code = drg
    \/ /\ \E i \in DOMAIN drg : ~IsDigit(drg[i])
       /\ LikeMatch(<<"%">> \o drg \o <<"%">>, q.ms_drg_description)

\* app.py:266-281: one row of the result as a dictionary; distance_km is None
\* in the response unless the radius filter sets it
JoinRow(view, p, pp, q) ==
    [provider_id |-> p.provider_id, provider_name |-> p.provider_name,
     provider_city |-> p.provider_city, provider_state |-> p.provider_state,
     provider_zip_code |-> p.provider_zip_code,
     ms_drg_code |-> q.ms_drg_code, ms_drg_description |-> q.ms_drg_description,
     total_discharges |-> pp.total_discharges,
     average_covered_charges |-> pp.average_covered_charges,
     average_total_payments |-> pp.average_total_payments,
     average_medicare_payments |-> pp.average_medicare_payments,
     rating |-> IF FindRating(view, p.provider_id) = {} THEN None
                ELSE Some((CHOOSE r \in FindRating(view, p.provider_id) : TRUE).rating),
     distance_km |-> None]

\* app.py:231-264: one row per (provider, procedure) pair the joins and the drg
\* filter keep, with the provider's rating if it has one
JoinRows(view, drg) ==
    UNION {UNION {{JoinRow(view, p, pp, q) :
                      q \in {x \in view.procedures :
                                x.id = pp.procedure_id /\ DrgMatches(x, drg)}} :
                  p \in FindProvider(view, pp.provider_id)} :
           pp \in view.provider_procedures}

\* app.py:284: the filter runs if zip and radius_km are both truthy
FilterActive(zip, radius_km) == zip # <<>> /\ radius_km # 0

\* app.py:289-299: the provider's zip resolves and it is within the radius
WithinRadius(provider, target, radius_km) ==
    /\ ~IsNone(get_zip_coordinates(provider.provider_zip_code))
    /\ calculate_distance(target, Val(get_zip_coordinates(provider.provider_zip_code))).above
          <= radius_km

\* app.py:297
Annotated(provider, target) ==
    [provider EXCEPT !.distance_km =
        Some(calculate_distance(target,
                                Val(get_zip_coordinates(provider.provider_zip_code))).rounded)]

\* the else of app.py:301 emptying the result
TargetUnresolvedDropsAll(providers) == {}

\* app.py:301-302: a warning is logged, providers is left as it is
TargetUnresolved(providers) == providers

\* app.py:283-302
LocationFilter(providers, zip, radius_km) ==
    IF ~FilterActive(zip, radius_km) THEN providers
    ELSE IF IsNone(get_zip_coordinates(zip)) THEN TargetUnresolved(providers)
    ELSE {Annotated(p, Val(get_zip_coordinates(zip))) :
             p \in {q \in providers :
                       WithinRadius(q, Val(get_zip_coordinates(zip)), radius_km)}}

\* the drg values of the requests: absent, a code, part of a description in
\* the other case, a character ILIKE reads as a wildcard
DrgValues == {<<>>, <<"1">>, <<"h">>, <<"_">>}

\* the zip values of the requests: absent, one of the table, one not in it
ZipValues == {<<>>, <<"1","0","0","0","1">>, <<"9","9","9","9","9">>}

\* the radius_km values of the requests, in 1/10000 of a metre: 0, just under
\* and just over the distance from 10001 to 10002, the default 10.0, -1.0
RadiusValues == {0, 36937316, 36937317, 100000000, -10000000}

\* rows of the file the served store was loaded from
ServiceRows == {
    Row(<<"N","Y">>, <<"3">>, <<"A">>, <<"a">>, <<"1","0","0","0","1">>, <<"1">>,
        <<"H","1">>, <<"5">>, <<"6">>, <<"7">>, <<"8">>),
    Row(<<"N","Y">>, <<"4">>, <<"C">>, <<"c">>, <<"1","0","0","0","2">>, <<"2">>,
        <<"a","1">>, <<"1">>, <<"2">>, <<"3">>, <<"4">>),
    Row(<<"N","Y">>, <<"4">>, <<"C">>, <<"c">>, <<"1","2","3">>, <<"1">>,
        <<"H","1">>, <<"1">>, <<"2">>, <<"3">>, <<"4">>) }

RECURSIVE SessionAfter(_, _)
\* the session of a run over the rows, for hash salt 0
SessionAfter(m, rows) ==
    IF rows = <<>> THEN m
    ELSE SessionAfter(process_row(m.s, m.seq, EmptyStore, Some({}), 0, Head(rows)),
                      Tail(rows))

\* the store such a run commits
StoreAfter(rows) ==
    LET m == SessionAfter([s |-> BeginSession(EmptyStore), seq |-> NoSeq], rows)
        f == Flush(m.s, m.seq, EmptyStore)
    IN  IF f.ok THEN f.s.t ELSE EmptyStore

\* the stores the service is started on
SampleStores == {StoreAfter(<<x, y>>) : x \in ServiceRows, y \in ServiceRows}

Request(at, kind, question, sql_query, executed, view, response) ==
    [at |-> at, kind |-> kind, question |-> question, sql_query |-> sql_query,
     executed |-> executed, view |-> view, response |-> response]

\* the sessions get_db may make in one behaviour
MaxSessions == 2

\* get_db with the close of app.py:94-95 left out
ReleaseSessionNever(p, id) == p

\* app.py:91-95: leaving the async with block and the finally close the session
ReleaseSession(p, id) == [p EXCEPT !.open = @ \ {id}, !.closed = @ \cup {id}]

\* the request in flight uses the session it acquired
WithSession(r) == [session |-> pool.made + 1] @@ r

\* app.py:91: session_factory() makes a new session for the request r, whose
\* handler runs to its first await, where it is suspended
AcquireSession(where, r) ==
    /\ pool.state = "started"
    /\ pool.made < MaxSessions
    /\ pool' = [pool EXCEPT !.made = @ + 1, !.open = @ \cup {pool.made + 1},
                            ![where] = @ \cup {WithSession(r)}]

NoResponse == [status |-> 0]

InitAsk ==
    /\ file = <<>>
    /\ batch_size = 1
    /\ durable \in SampleStores
    /\ sess = BeginSession(EmptyStore)
    /\ pc = "NOT_STARTED"
    /\ chunkIdx = 0
    /\ batch = <<>>
    /\ processed = 0
    /\ errors = 0
    /\ totals = [processed |-> 0, errors |-> 0]
    /\ rated = None
    /\ hashSeed = 0
    /\ runNo = 0
    /\ hist = [startDurable |-> EmptyStore, prevCompleted |-> FALSE, whole |-> TRUE,
               commits |-> 0,
               lastGen |-> None, failedAt |-> "no", abandoned |-> {},
               overlap |-> FALSE, errWrote |-> {}, okWrote |-> {}]
    /\ req = NoRequest
    /\ pool \in {[NoPool EXCEPT !.reachable = b] : b \in BOOLEAN}
    /\ call = NoCall
    /\ peer = NoPeer
    /\ engine = NoEngine
    /\ sequences = NoSeq
    /\ iteration = NoRow

\* startup_event (app.py:168-192): the engine and the session factory are
\* created; create_async_engine connects lazily, no round trip is made, so the
\* service starts whether the store is reachable or not
Startup ==
    /\ pool.state = "not_started"
    /\ pool' = [pool EXCEPT !.state = "started"]
    /\ UNCHANGED <<req, durable, call, peer, sequences, etlVarsButStore>>

\* GET / (app.py:203-213)
Root ==
    /\ pool.state = "started"
    /\ req.at = "idle"
    /\ req' = Request("responded", "root", <<>>, <<>>, "no", durable,
                      [status |-> 200, message |-> "Healthcare Pricing API"])
    /\ UNCHANGED <<pool, durable, call, peer, sequences, etlVarsButStore>>

\* the parameters of a GET /providers request, with the rest of the request
ProvidersRequest(drg, zip, radius_km) ==
    [drg |-> drg, zip |-> zip, radius_km |-> radius_km]
       @@ Request("executing", "providers", <<>>, <<>>, "no", durable, NoResponse)

\* GET /providers arrives (app.py:215-261): get_db opens the session, the
\* handler builds the query and awaits db.execute; the loop is left free.  The
\* requests drawn: every zip with every radius, and every drg with the default
\* radius and a zip that is absent or in the lookup table
SearchProviders ==
    /\ req.at = "idle"
    /\ \E drg \in DrgValues, zip \in ZipValues, radius_km \in RadiusValues :
        /\ drg = <<>> \/ (radius_km = 100000000 /\ zip # <<"9","9","9","9","9">>)
        /\ AcquireSession("executing", ProvidersRequest(drg, zip, radius_km))
    /\ req' = NoRequest
    /\ UNCHANGED <<durable, call, peer, sequences, etlVarsButStore>>

\* app.py:261-306: the loop resumes the handler; db.execute has raised, or
\* has returned the rows, which the location filter goes over
ProvidersExecuted ==
    /\ req.at = "idle"
    /\ \E r \in {x \in pool.executing : x.kind = "providers"} :
        /\ pool' = [pool EXCEPT !.executing = @ \ {r}]
        /\ \/ req' = [r EXCEPT !.at = "responded", !.executed = "raised",
                               !.response = InternalError]
           \/ /\ pool.reachable
              /\ req' = [r EXCEPT !.at = "responded", !.executed = "returned",
                                  !.view = durable,
                                  !.response =
                                      [status |-> 200,
                                       providers |-> LocationFilter(JoinRows(durable, r.drg),
                                                                    r.zip, r.radius_km)]]
    /\ UNCHANGED <<durable, call, peer, sequences, etlVarsButStore>>

\* client.chat.completions.create called in the coroutine itself: the loop
\* stays with the handler r until the translator has answered
CallTranslatorInline(r) == r

\* app.py:151-164: the handler r awaits asyncio.sleep and asyncio.to_thread, the
\* call runs in a worker thread; what the loop is left running: nothing
AwaitTranslator(r) == NoRequest

\* POST /ask arrives: get_db opens the session, the handler awaits the
\* translator (app.py:325)
AskStart ==
    /\ req.at = "idle"
    /\ \E q \in Questions :
        /\ AcquireSession("translating",
                          Request("translating", "ask", q, <<>>, "no", durable, NoResponse))
        /\ req' = AwaitTranslator(WithSession(Request("translating", "ask", q, <<>>,
                                                      "no", durable, NoResponse)))
    /\ UNCHANGED <<durable, call, peer, sequences, etlVarsButStore>>

\* the loop resumes the handler r: it is running no other handler
Resumed(r) ==
    /\ req = AwaitTranslator(r)
    /\ pool' = [pool EXCEPT !.translating = @ \ {r}]

\* generate_sql_from_question raises (app.py:372-374)
TranslatorRaises ==
    /\ \E r \in pool.translating :
        /\ Resumed(r)
        /\ req' = [r EXCEPT !.at = "responded", !.response = InternalError]
    /\ UNCHANGED <<durable, call, peer, sequences, etlVarsButStore>>

\* app.py:339-354: the store executed the statement.  result.fetchall() returns
\* the rows of a statement that reads; on the result of a statement that
\* returns no rows it raises, and the except of app.py:356 answers
AskExecuted(r, query) ==
    req' = [r EXCEPT !.at = "responded", !.sql_query = query.text,
                     !.executed = "returned",
                     !.view = Executed(@, query.effect),
                     !.response =
                         IF query.effect = "read"
                         THEN ResultsResponse(r.question, query.text,
                                              RowsOf(Executed(r.view, query.effect)))
                         ELSE ExecutionFailedResponse(r.question, query.text)]

\* db.execute raised (app.py:356-363)
AskFailed(r, query) ==
    req' = [r EXCEPT !.at = "responded", !.sql_query = query.text,
                     !.executed = "raised",
                     !.response = ExecutionFailedResponse(r.question, query.text)]

\* app.py:329-335
AskRefused(r, query) ==
    req' = [r EXCEPT !.at = "responded", !.sql_query = query.text,
                     !.response = RefusalResponse(r.question)]

\* app.py:325-339: the translator has answered and the loop resumes the
\* handler.  A text with a keyword is refused; db.execute raises before it
\* sends anything (the session does not take the text, there is no connection);
\* or the statement is sent and the handler awaits the store
AskHandle ==
    /\ \E r \in pool.translating :
        /\ req = AwaitTranslator(r)
        /\ \E query \in SampleQueries :
            IF IsDangerous(query.text)
            THEN pool' = [pool EXCEPT !.translating = @ \ {r}] /\ AskRefused(r, query)
            ELSE \/ pool' = [pool EXCEPT !.translating = @ \ {r}] /\ AskFailed(r, query)
                 \/ /\ pool' = [pool EXCEPT
                                   !.translating = @ \ {r},
                                   !.executing = @ \cup
                                       {[query |-> query] @@
                                        [r EXCEPT !.at = "executing",
                                                  !.sql_query = query.text]}]
                    /\ req' = NoRequest
    /\ UNCHANGED <<durable, call, peer, sequences, etlVarsButStore>>

\* app.py:339-370: the loop resumes the handler; db.execute has raised, or the
\* store has executed the statement
AskAnswered ==
    /\ req.at = "idle"
    /\ \E r \in {x \in pool.executing : x.kind = "ask"} :
        /\ pool' = [pool EXCEPT !.executing = @ \ {r}]
        /\ \/ AskFailed(r, r.query)
           \/ pool.reachable /\ r.query.effect # "invalid" /\ AskExecuted(r, r.query)
    /\ UNCHANGED <<durable, call, peer, sequences, etlVarsButStore>>

\* db.execute of the request r handed its statement to the session
Sent(r) == r.kind = "providers" \/ (r.kind = "ask" /\ "query" \in DOMAIN r)

\* the session of the request r holds a connection with a transaction begun:
\* session.close() sends ROLLBACK and waits for the store
InTransaction(r) == Sent(r) /\ pool.reachable

\* the handler has returned and get_db reaches its close (app.py:94-95).  The
\* session of a request that holds no connection is closed at once; GET / has
\* no session; for the other requests get_db awaits session.close() and the
\* loop is left free
RequestEnds ==
    /\ req.at = "responded"
    /\ IF req.kind = "root"
       THEN UNCHANGED <<pool, durable>>
       ELSE IF InTransaction(req)
       THEN /\ pool' = [pool EXCEPT !.closing = @ \cup {req}]
            /\ UNCHANGED durable
       ELSE /\ pool' = ReleaseSession(pool, req.session)
            /\ durable' = CloseSession(durable, req.view)
    /\ req' = NoRequest
    /\ UNCHANGED <<call, peer, sequences, etlVarsButStore>>

\* app.py:95: the store has answered the ROLLBACK, the loop resumes get_db and
\* the session is closed
SessionClosed ==
    /\ req.at = "idle"
    /\ \E r \in pool.closing :
        /\ pool' = ReleaseSession([pool EXCEPT !.closing = @ \ {r}], r.session)
        /\ durable' = CloseSession(durable, r.view)
    /\ UNCHANGED <<req, call, peer, sequences, etlVarsButStore>>

NextAsk ==
    \/ Startup
    \/ Root
    \/ SearchProviders
    \/ ProvidersExecuted
    \/ AskStart
    \/ TranslatorRaises
    \/ AskHandle
    \/ AskAnswered
    \/ RequestEnds
    \/ SessionClosed

SpecAsk == InitAsk /\ [][NextAsk]_vars

(***************************************************************************)
(* The pure functions, each called once on arguments drawn from small      *)
(* sets: clean_text_field, clean_provider_data, clean_procedure_data       *)
(* (etl.py) and the location filter over one candidate (app.py).           *)
(***************************************************************************)
MaxTextLen == 3   \* characters in the text given to clean_text_field

\* the values clean_text_field is called on: the str values over a letter, a
\* space, a tab and a character that is neither printable nor whitespace; None
\* and '' (both <<>>); the float nan
TextValues ==
    UNION {[1..n -> {"a", " ", "\t", "DEL"}] : n \in 0..MaxTextLen} \cup {Nan}

\* the cells a field is given in the calls of the two extractions: a value, a
\* value with characters that are not alphanumeric, such characters only,
\* blank, '' or absent from the row, the float nan
FieldCells == {<<"3">>, <<"0","1","-","a">>, <<"-">>, <<" ">>, <<>>, Nan}

ProviderFields == {"Rndrng_Prvdr_CCN", "Rndrng_Prvdr_Org_Name", "Rndrng_Prvdr_City",
                   "Rndrng_Prvdr_State_Abrvtn", "Rndrng_Prvdr_Zip5"}

\* a row all of whose cells have a value
FullRow == Row(<<"N","Y">>, <<"3">>, <<"A">>, <<"a","b">>, <<"1","2","3">>, <<"1">>, <<"h">>,
               <<"5">>, <<"6">>, <<"7">>, <<"8">>)

\* the calls; the location filter is called for a provider zip and a target
\* zip of the table, or one that is not in it
Calls ==
    {[fn |-> "clean_text_field", text |-> t, max_length |-> m, done |-> FALSE,
      result |-> <<>>] : t \in TextValues, m \in {NoMax, 1, 2}}
    \cup {[fn |-> "clean_provider_data", row |-> [FullRow EXCEPT ![f] = c],
           done |-> FALSE, result |-> None] : f \in ProviderFields, c \in FieldCells}
    \cup {[fn |-> "clean_procedure_data",
           row |-> [FullRow EXCEPT !.DRG_Cd = c, !.DRG_Desc = d],
           done |-> FALSE, result |-> None] : c \in FieldCells, d \in FieldCells}
    \cup {[fn |-> "location_filter", provider_zip_code |-> z, zip |-> target,
           radius_km |-> r, done |-> FALSE, result |-> {}] :
              z \in {e.zip : e \in zip_coords} \cup {<<"9","9","9","9","9">>},
              target \in {e.zip : e \in zip_coords} \cup {<<"9","9","9","9","9">>},
              r \in RadiusValues}

InitFn ==
    /\ file = <<>>
    /\ batch_size = 1
    /\ durable = EmptyStore
    /\ sess = BeginSession(EmptyStore)
    /\ pc = "NOT_STARTED"
    /\ chunkIdx = 0
    /\ batch = <<>>
    /\ processed = 0
    /\ errors = 0
    /\ totals = [processed |-> 0, errors |-> 0]
    /\ rated = None
    /\ hashSeed = 0
    /\ runNo = 0
    /\ hist = [startDurable |-> EmptyStore, prevCompleted |-> FALSE, whole |-> TRUE,
               commits |-> 0,
               lastGen |-> None, failedAt |-> "no", abandoned |-> {},
               overlap |-> FALSE, errWrote |-> {}, okWrote |-> {}]
    /\ req = NoRequest
    /\ pool = NoPool
    /\ call \in Calls
    /\ peer = NoPeer
    /\ engine = NoEngine
    /\ sequences = NoSeq
    /\ iteration = NoRow

\* the call returns v
Returns(fn, v) ==
    /\ call.fn = fn
    /\ ~call.done
    /\ call' = [call EXCEPT !.done = TRUE, !.result = v]
    /\ UNCHANGED <<req, pool, durable, peer, sequences, etlVarsButStore>>

CallCleanText == Returns("clean_text_field", clean_text_field(call.text, call.max_length))

CallCleanProvider == Returns("clean_provider_data", clean_provider_data(call.row))

CallCleanProcedure == Returns("clean_procedure_data", clean_procedure_data(call.row))

\* app.py:283-302 over the one candidate whose provider is at provider_zip_code
CallLocationFilter ==
    Returns("location_filter",
            LocationFilter({[provider_zip_code |-> call.provider_zip_code,
                             distance_km |-> None]}, call.zip, call.radius_km))

NextFn ==
    \/ CallCleanText
    \/ CallCleanProvider
    \/ CallCleanProcedure
    \/ CallLocationFilter

SpecFn == InitFn /\ [][NextFn]_vars

(***************************************************************************)
(* Properties.                                                             *)
(***************************************************************************)
\* the rows of the batch processed so far in this run
RowsProcessed == totals.processed + processed

\* C1: a run that reads the whole file to completion right after another such
\* run over the same file leaves the store as the first run left it (providers,
\* procedures, associations and ratings alike).
C1_RerunIsIdempotent ==
    (pc = "COMMITTED" /\ hist.prevCompleted /\ hist.whole) => durable = hist.startDurable

\* C2: the store changes only by the commit that follows the last chunk, at
\* most once per run, and a run that fails before its commit leaves the store
\* as it found it.
C2_AllOrNothing ==
    [][/\ durable' # durable =>
            /\ pc = "STREAMING" /\ pc' = "COMMITTED"
            /\ chunkIdx = NumChunks
            /\ hist.commits = 0
            /\ durable' = sess.t
       /\ (pc' = "FAILED" /\ hist'.commits = 0) => durable' = hist'.startDurable]_vars

\* a run over two chunks has committed rows
C2_Witness ==
    /\ pc = "COMMITTED"
    /\ NumChunks = 2
    /\ durable # hist.startDurable
    /\ runNo = 2

KeysUnique(t) ==
    /\ \A p, q \in t.providers : p.provider_id = q.provider_id => p = q
    /\ \A p, q \in t.procedures : p.ms_drg_code = q.ms_drg_code => p = q
    /\ \A p, q \in t.provider_procedures :
          (p.provider_id = q.provider_id /\ p.procedure_id = q.procedure_id) => p = q
    /\ \A p, q \in t.ratings : p.provider_id = q.provider_id => p = q

\* C3: in the store and in the open transaction there is at most one Provider
\* per provider_id, one Procedure per ms_drg_code, one ProviderProcedure per
\* (provider_id, procedure_id) and one Rating per provider.
C3_KeysUnique == KeysUnique(durable) /\ KeysUnique(sess.t)

\* a second run has committed over a store with two providers and two procedures
C3_Witness ==
    /\ pc = "COMMITTED"
    /\ runNo = 2
    /\ hist.prevCompleted
    /\ hist.whole
    /\ Cardinality(durable.providers) = 2
    /\ Cardinality(durable.procedures) = 2

\* the association the head row of the batch is about, in the tables t
ExistingAssociations(t, row) ==
    {pp \in t.provider_procedures :
        /\ pp.provider_id = Val(clean_provider_data(row)).provider_id
        /\ \E pr \in t.procedures :
              /\ pr.id = pp.procedure_id
              /\ pr.ms_drg_code = Val(clean_procedure_data(row)).ms_drg_code}

\* the iteration under way goes on to the await named next, or ends with
\* processed_count += 1
RowGoesOn(next) ==
    \/ iteration'.at = next
    \/ pc' \in {"PROCESSING", "STREAMING"} /\ RowsProcessed' = RowsProcessed + 1

\* C4: when upsert_provider_procedure finds the association of the row in the
\* store and does not raise, every measure whose incoming value is null keeps
\* its value, every other measure takes the incoming value, and no measure that
\* was non-null becomes null.
C4_UpsertKeepsKnownValues ==
    [][(/\ pc = "PROCESSING"
        /\ iteration.at = "association"
        /\ RowGoesOn("rating"))
       => \A old \in ExistingAssociations(sess.t, Head(batch)) :
            \E new \in sess'.t.provider_procedures :
               /\ new.id = old.id
               /\ \A k \in MeasureKeys :
                     /\ IsNone(Val(clean_financial_data(Head(batch)))[k]) => new[k] = old[k]
                     /\ ~IsNone(Val(clean_financial_data(Head(batch)))[k])
                            => new[k] = Val(clean_financial_data(Head(batch)))[k]
                     /\ ~IsNone(old[k]) => ~IsNone(new[k])]_vars

\* an association written by a complete row was updated by a row with one measure
C4_Witness ==
    \E pp \in sess.t.provider_procedures :
        /\ pp.total_discharges = <<5>>
        /\ pp.average_covered_charges = <<9>>
        /\ pp.average_total_payments = <<7>>

\* C5: every Rating row has an integer rating from 1 to 10.
C5_RatingInRange ==
    \A r \in durable.ratings \cup sess.t.ratings :
        r.rating \in Int /\ RatingMin <= r.rating /\ r.rating <= RatingMax

\* a rating of 10 and a rating of 1 are stored
C5_Witness ==
    /\ \E r \in durable.ratings : r.rating = RatingMax
    /\ \E r \in durable.ratings : r.rating = RatingMin

\* the object the session holds and has not sent, if any
PendingOf(s, k) ==
    IF IsNone(s.pending) \/ Val(s.pending).k # k THEN {} ELSE {Val(s.pending).row}

\* the ratings the session holds for the provider, sent or not
RatingHeld(s, provider_id) ==
    {r.rating : r \in {q \in s.t.ratings \cup PendingOf(s, "ratings") :
                          q.provider_id = provider_id}}

\* C6: a row of a provider that is already in the rated set generates no rating,
\* and the processing of a row that does not raise leaves the Rating row of
\* such a provider as it is.
C6_RateOnce ==
    [][\A provider_id \in RatedSet(rated) :
          /\ hist'.lastGen # Some(provider_id)
          /\ (pc = "PROCESSING" /\ pc' # "FAILED" /\ ~sess'.broken)
                => RatingHeld(sess', provider_id) = RatingHeld(sess, provider_id)]_vars

\* two rows of one provider were processed and the provider has its one rating
C6_Witness ==
    /\ RowsProcessed = 2
    /\ rated = Some({<<"3">>})
    /\ ~sess.broken
    /\ Cardinality(FindRating(sess.t, <<"3">>)) = 1

\* C7: the rating a run stores for a provider is the rating an earlier run
\* stored for that provider.
C7_SameRatingInEveryRun ==
    \A r \in sess.t.ratings : \A q \in durable.ratings :
        r.provider_id = q.provider_id => r.rating = q.rating

\* C8: no request changes the store.
C8_RequestsReadOnly == [][durable' = durable]_vars

\* a request had the store execute a statement that empties a table
C8_Witness ==
    /\ req.at = "responded"
    /\ req.kind = "ask"
    /\ req.executed = "returned"
    /\ req.view # durable

\* text contains keyword, whatever the case of the letters
ContainsIgnoringCase(text, keyword) ==
    \E i \in 0..(Len(text) - Len(keyword)) :
        \A j \in 1..Len(keyword) : LowerChar(text[i + j]) = LowerChar(keyword[j])

\* C9: a translated query that contains a denylisted keyword, in any case, is
\* answered with empty results and the refusal message, and no statement is
\* executed.
C9_RefusedBeforeExecute ==
    (/\ req.at = "responded"
     /\ req.kind = "ask"
     /\ \E keyword \in dangerous_keywords : ContainsIgnoringCase(req.sql_query, keyword))
    => /\ req.response.status = 200
       /\ req.response.results = {}
       /\ req.response.message = RefusalMessage
       /\ req.executed = "no"
       /\ req.view = durable

\* a query with a keyword in lower case was refused
C9_Witness ==
    /\ req.at = "responded"
    /\ req.sql_query = <<"d","e","l","e","t","e"," ","r">>
    /\ req.response.message = RefusalMessage

\* the statement the store executed for the request returns no rows, and
\* result.fetchall() raised
FetchRaised ==
    req.executed = "returned" /\ req.query.effect # "read"

\* C10: when the execution of a translated query raises, in db.execute or in
\* result.fetchall(), the request is answered normally, with empty results,
\* the message asking to rephrase, and the translated query text.
C10_ExecutionFailureIsAValue ==
    (req.at = "responded" /\ req.kind = "ask" /\ (req.executed = "raised" \/ FetchRaised))
    => /\ req.response.status = 200
       /\ req.response.results = {}
       /\ req.response.message = RephraseMessage
       /\ req.response.sql_query = req.sql_query
       /\ req.response.question = req.question

\* the execution of a well-formed query raised
C10_Witness ==
    /\ req.at = "responded"
    /\ req.kind = "ask"
    /\ req.executed = "raised"
    /\ req.sql_query = <<"S","E","L","E","C","T"," ","1">>

\* the rows of the run counted as errors so far
RowsInError == totals.errors + errors

\* C14: a row for which one of the three extractions rejects adds one to the
\* error count and nothing to the processed count, and changes neither the
\* tables of the transaction, nor the store, nor the set of rated providers.
C14_RejectedRowWritesNothing ==
    [][(/\ pc = "PROCESSING"
        /\ pc' \in {"PROCESSING", "STREAMING"}
        /\ \/ IsNone(clean_provider_data(Head(batch)))
           \/ IsNone(clean_procedure_data(Head(batch)))
           \/ IsNone(clean_financial_data(Head(batch))))
       => /\ sess' = sess
          /\ durable' = durable
          /\ rated' = rated
          /\ totals'.errors + errors' = RowsInError + 1
          /\ totals'.processed + processed' = RowsProcessed]_vars

\* one row was rejected and one was written, in a transaction that is alive
C14_Witness ==
    /\ pc \in {"PROCESSING", "STREAMING"}
    /\ RowsInError = 1
    /\ RowsProcessed = 1
    /\ ~sess.broken
    /\ Cardinality(sess.t.provider_procedures) = 1

\* C15: after a row has raised, the store error included, the transaction still
\* takes the later rows and the run reaches its commit with success.
C15_RowFailureKeepsRun == ~sess.broken /\ hist.failedAt # "commit"

\* C16: an exception raised while a chunk is read from the stream does not end
\* the run.
C16_ChunkFailureKeepsRun == hist.failedAt # "read"

\* the region cell is NY in any case, with whitespace around it at most
RegionIsNY(cell) ==
    \E i \in 1..(Len(cell) - 1) :
        /\ LowerChar(cell[i]) = "n"
        /\ LowerChar(cell[i + 1]) = "y"
        /\ \A j \in DOMAIN cell \ {i, i + 1} : IsSpace(cell[j])

\* C17: filter_ny_providers keeps exactly the rows whose region is NY after
\* trimming and ignoring case, in their order and unmodified; only such rows
\* are handed to process_batch, and every stored provider has region NY.
C17_RegionFilter ==
    /\ \A i \in 1..NumChunks :
          filter_ny_providers(Chunk(i))
             = SelectSeq(Chunk(i), LAMBDA row : RegionIsNY(row.Rndrng_Prvdr_State_Abrvtn))
    /\ pc = "PROCESSING" =>
          \A k \in DOMAIN batch : RegionIsNY(batch[k].Rndrng_Prvdr_State_Abrvtn)
    /\ \A p \in sess.t.providers \cup durable.providers : p.provider_state = <<"N", "Y">>

\* of a chunk of two rows, the padded mixed-case row is the one handed on
C17_Witness ==
    /\ pc = "PROCESSING"
    /\ Len(Chunk(chunkIdx)) = 2
    /\ Len(batch) = 1
    /\ batch[1].Rndrng_Prvdr_State_Abrvtn = <<" ","N","y"," ">>

\* the digits of a zip cell
ZipDigits(cell) == SelectSeq(cell, LAMBDA c : c \in {"0","1","2","3","4","5","6","7","8","9"})

\* C18: the zip of every accepted provider row is five digits: the digits of
\* the cell, zeros put in front of fewer than five, the first five of more;
\* every stored provider has such a zip.
C18_ZipNormalized ==
    /\ \A i \in DOMAIN file :
          ~IsNone(clean_provider_data(file[i])) =>
             /\ Len(Val(clean_provider_data(file[i])).provider_zip_code) = 5
             /\ \A j \in 1..5 :
                   Val(clean_provider_data(file[i])).provider_zip_code[j] =
                      IF Len(ZipDigits(file[i].Rndrng_Prvdr_Zip5)) >= 5
                      THEN ZipDigits(file[i].Rndrng_Prvdr_Zip5)[j]
                      ELSE IF j <= 5 - Len(ZipDigits(file[i].Rndrng_Prvdr_Zip5)) THEN "0"
                      ELSE ZipDigits(file[i].Rndrng_Prvdr_Zip5)
                              [j - (5 - Len(ZipDigits(file[i].Rndrng_Prvdr_Zip5)))]
    /\ \A p \in sess.t.providers \cup durable.providers :
          /\ Len(p.provider_zip_code) = 5
          /\ ZipDigits(p.provider_zip_code) = p.provider_zip_code

\* "123" was stored as "00123" and "1-2" as "00012", from a file that also has "123456"
C18_Witness ==
    /\ \E p \in durable.providers : p.provider_zip_code = <<"0","0","1","2","3">>
    /\ \E p \in durable.providers : p.provider_zip_code = <<"0","0","0","1","2">>

\* C19: the query service does not start while the store is unreachable.
C19_StartupNeedsStore == pool.state = "started" => pool.reachable

\* the requests suspended at an await
Suspended == pool.translating \cup pool.executing \cup pool.closing

\* the sessions of the requests in flight: those suspended, get_db's close
\* included, and the one whose handler the loop runs
SessionsInFlight ==
    {r.session : r \in Suspended}
        \cup (IF req.at # "idle" /\ req.kind # "root" THEN {req.session} ELSE {})

\* C20: the session of a request is one no request had before and no other
\* request in flight has; the sessions open are exactly those of the requests
\* in flight, and once a request has ended (get_db has returned), on whatever
\* path, its session is closed.
C20_SessionsScoped ==
    /\ pool.open \cap pool.closed = {}
    /\ pool.open = SessionsInFlight
    /\ \A r1, r2 \in Suspended : r1.session = r2.session => r1 = r2
    /\ (req.at # "idle" /\ req.kind # "root") =>
          \A r \in Suspended : r.session # req.session
    /\ pool.open \cup pool.closed = 1..pool.made

\* two requests have ended and released their sessions
C20_Witness ==
    /\ req.at = "idle"
    /\ pool.made = 2
    /\ pool.closed = {1, 2}

\* a GET /providers request whose query returned its rows was answered
ProvidersAnswered ==
    req.at = "responded" /\ req.kind = "providers" /\ req.executed = "returned"

\* the zips of the lookup table
ResolvableZips ==
    {<<"1","0","0","0","1">>, <<"1","0","0","0","2">>, <<"1","0","0","0","3">>,
     <<"1","1","2","0","1">>, <<"1","1","2","1","5">>, <<"1","0","4","5","1">>,
     <<"1","1","1","0","1">>, <<"1","0","3","0","1">>}

\* C11: when the zip of the request resolves, whatever the radius (0 included),
\* the response holds exactly the candidates whose zip resolves and whose
\* distance to the target is at most the radius, each with its distance_km.
C11_RadiusFilter ==
    (ProvidersAnswered /\ req.zip \in ResolvableZips) =>
        /\ \A row \in req.response.providers :
              /\ row.provider_zip_code \in ResolvableZips
              /\ ~IsNone(row.distance_km)
              /\ calculate_distance(Val(get_zip_coordinates(req.zip)),
                                    Val(get_zip_coordinates(row.provider_zip_code))).above
                    <= req.radius_km
        /\ \A c \in JoinRows(req.view, req.drg) :
              (/\ c.provider_zip_code \in ResolvableZips
               /\ calculate_distance(Val(get_zip_coordinates(req.zip)),
                                     Val(get_zip_coordinates(c.provider_zip_code))).above
                     <= req.radius_km)
              => \E row \in req.response.providers :
                    [row EXCEPT !.distance_km = None] = c

\* C12: when the zip of the request is not in the lookup table, the response is
\* a normal one and holds exactly the candidates of the relational query, none
\* with a distance.
C12_UnresolvedTargetSkipsFilter ==
    (ProvidersAnswered /\ req.zip # <<>> /\ req.zip \notin ResolvableZips) =>
        /\ req.response.status = 200
        /\ req.response.providers = JoinRows(req.view, req.drg)
        /\ \A row \in req.response.providers : IsNone(row.distance_km)

\* a request with an unknown zip and the default radius got two candidates back
C12_Witness ==
    /\ ProvidersAnswered
    /\ req.zip = <<"9","9","9","9","9">>
    /\ req.radius_km = 100000000
    /\ Cardinality(req.response.providers) = 2

\* C13: without a location filter, the response holds exactly the stored
\* (provider, procedure) pairs whose code equals drg when drg is all digits,
\* whose description contains drg in any case when it is not, and all pairs
\* when drg is absent.
C13_ProcedureFilter ==
    (ProvidersAnswered /\ req.zip = <<>>) =>
        req.response.providers =
            {c \in JoinRows(req.view, <<>>) :
                \/ req.drg = <<>>
                \/ /\ req.drg # <<>>
                   /\ \A i \in DOMAIN req.drg : req.drg[i] \in {"0","1","2","3","4","5","6","7","8","9"}
                   /\ c.ms_drg_code = req.drg
                \/ /\ \E i \in DOMAIN req.drg : req.drg[i] \notin {"0","1","2","3","4","5","6","7","8","9"}
                   /\ ContainsIgnoringCase(c.ms_drg_description, req.drg)}
\* C21: while POST /ask requests wait for the translator, the loop runs none
\* of them: GET / can be served, GET /providers and another POST /ask can be
\* started (as long as a session can be made), a request that was answered
\* can end and a session whose close is awaited can be closed.
C21_TranslatorDoesNotBlock ==
    (pool.translating # {}) =>
        /\ \A r \in pool.translating : req # r
        /\ req.at = "idle" =>
              /\ ENABLED Root
              /\ pool.made < MaxSessions => (ENABLED SearchProviders /\ ENABLED AskStart)
              /\ pool.closing # {} => ENABLED SessionClosed
        /\ req.at = "responded" => ENABLED RequestEnds

\* a request that arrived after a POST /ask request was served to its end
\* while the POST /ask request is still waiting for the translator
C21_Witness ==
    /\ req.at = "idle"
    /\ \E r \in pool.translating : r.session = 1
    /\ pool.closed = {2}
\* a call of fn has returned
Returned(fn) == call.fn = fn /\ call.done

\* C23: the text clean_text_field returns has no whitespace at its ends, no
\* character that is neither printable nor whitespace, no whitespace other
\* than single spaces between words, and at most max_length characters when a
\* max_length is given.
C23_TextNormalForm ==
    Returned("clean_text_field") =>
        /\ call.result # <<>> =>
              /\ call.result[1] \notin {" ", "\t", "\n"}
              /\ call.result[Len(call.result)] \notin {" ", "\t", "\n"}
        /\ \A i \in DOMAIN call.result :
              /\ call.result[i] # "DEL"
              /\ call.result[i] \notin {"\t", "\n"}
              /\ (i > 1 /\ call.result[i] = " ") => call.result[i - 1] # " "
        /\ call.max_length # NoMax => Len(call.result) <= call.max_length

\* C24: clean_text_field returns the empty string for an empty or missing
\* value ('' or None, and the float nan the chunk reader gives for an absent
\* cell), and clean_provider_data rejects a row in which one of the five
\* provider fields is such a value.
C24_MissingIsEmpty ==
    /\ (Returned("clean_text_field") /\ call.text \in {<<>>, Nan}) => call.result = <<>>
    /\ (Returned("clean_provider_data")
           /\ \E f \in ProviderFields : call.row[f] \in {<<>>, Nan})
          => IsNone(call.result)

\* C25: a procedure record clean_procedure_data accepts has a description that
\* is not empty and a code that is not empty and holds letters and digits only.
C25_AcceptedCodeIsAlnum ==
    (Returned("clean_procedure_data") /\ ~IsNone(call.result)) =>
        /\ Val(call.result).ms_drg_description # <<>>
        /\ Val(call.result).ms_drg_code # <<>>
        /\ \A i \in DOMAIN Val(call.result).ms_drg_code :
              Val(call.result).ms_drg_code[i] \in Digit \cup Lower \cup Upper

\* C26: calculate_distance from the coordinates of a zip of the table to
\* themselves is 0, and the location filter keeps a candidate whose zip is the
\* target zip, whatever the radius >= 0; when the filter runs, the candidate's
\* distance_km is 0.
C26_SelfDistanceZero ==
    (Returned("location_filter")
        /\ call.zip \in ResolvableZips
        /\ call.provider_zip_code = call.zip) =>
        /\ calculate_distance(Val(get_zip_coordinates(call.zip)),
                              Val(get_zip_coordinates(call.zip)))
              = [above |-> 0, rounded |-> 0]
        /\ call.radius_km >= 0 =>
              /\ Cardinality(call.result) = 1
              /\ \A p \in call.result :
                    /\ p.provider_zip_code = call.zip
                    /\ call.radius_km > 0 => p.distance_km = Some(0)

\* the filter has run for a provider in the target zip 10301 with a radius
\* of 10 km, and has kept it
C26_Witness ==
    /\ Returned("location_filter")
    /\ call.zip = <<"1","0","3","0","1">>
    /\ call.provider_zip_code = call.zip
    /\ call.radius_km = 100000000
    /\ \E p \in call.result : p.distance_km = Some(0)

\* the order of the phases of a run; between two chunks the run is back at
\* the stream, and a chunk without a row of the region has no PROCESSING
PhaseOrder ==
    {<<"NOT_STARTED", "CONNECTED">>, <<"CONNECTED", "STREAMING">>,
     <<"STREAMING", "FILTERING">>, <<"FILTERING", "PROCESSING">>,
     <<"FILTERING", "STREAMING">>, <<"PROCESSING", "STREAMING">>,
     <<"STREAMING", "COMMITTED">>, <<"COMMITTED", "CLOSED">>}

\* C27: a run changes phase only along NOT_STARTED, CONNECTED, STREAMING, per
\* chunk FILTERING then PROCESSING, COMMITTED, CLOSED, or to FAILED; rows are
\* added to the session or changed in it only in PROCESSING, which is reached
\* only after CONNECTED, and sent to the store there or by the flush of the
\* commit; the commit is taken only when every chunk has been read and handled;
\* after it no chunk is read, filtered or processed.
C27_PhaseOrder ==
    [][/\ pc' # pc => (<<pc, pc'>> \in PhaseOrder \/ pc' = "FAILED")
       /\ (\/ \E k \in DOMAIN sess.t : ~(sess'.t[k] \subseteq sess.t[k])
           \/ ~IsNone(sess'.pending) /\ sess'.pending # sess.pending)
             => /\ runNo >= 1
                /\ \/ pc = "PROCESSING"
                   \/ /\ pc = "STREAMING" /\ chunkIdx = NumChunks
                      /\ ~IsNone(sess.pending) /\ IsNone(sess'.pending)
       /\ pc' = "COMMITTED" => (chunkIdx = NumChunks /\ batch = <<>>)
       /\ pc \in {"COMMITTED", "CLOSED"}
             => (pc' \in {"COMMITTED", "CLOSED", "FAILED"}
                  /\ (pc' # "FAILED" => chunkIdx' = chunkIdx)
                  /\ sess'.t = sess.t /\ durable' = durable)]_vars

\* a run over two chunks, one row processed in each, has gone through all its
\* phases
C27_Witness ==
    /\ pc = "CLOSED"
    /\ NumChunks = 2
    /\ chunkIdx = 2
    /\ totals.processed = 2
    /\ durable # EmptyStore

\* every row of table k of t has a row with its primary key in u
RowsKept(t, u) ==
    \A k \in DOMAIN t : \A r \in t[k] : \E q \in u[k] : KeyOf(k, q) = KeyOf(k, r)

\* the Providers the session holds, sent or not
ProvidersHeld(s) == s.t.providers \cup PendingOf(s, "providers")

\* C28: get_or_create_provider, when it does not raise, leaves the Provider of
\* the row's provider_id with exactly the row's cleaned name, city, state and
\* zip, and every other Provider as it was; the rest of the processing of the
\* row leaves every Provider as it is, and the row's Provider is in the
\* transaction when the row is counted as processed; no step removes a row of
\* the store, and no row step removes a row of the transaction.
C28_ProviderOverwritten ==
    [][/\ RowsKept(durable, durable')
       /\ (/\ pc = "PROCESSING"
           /\ pc' \in {"PROCESSING", "STREAMING"}
           /\ ~sess'.broken)
          => /\ RowsKept(sess.t, sess'.t)
             /\ IF iteration.at = "provider" /\ iteration'.at = "procedure"
                THEN /\ \A p \in ProvidersHeld(sess') :
                           \/ p = Val(clean_provider_data(Head(batch)))
                           \/ /\ p \in ProvidersHeld(sess)
                              /\ p.provider_id
                                    # Val(clean_provider_data(Head(batch))).provider_id
                     /\ Val(clean_provider_data(Head(batch))) \in ProvidersHeld(sess')
                ELSE ProvidersHeld(sess') = ProvidersHeld(sess)
             /\ RowsProcessed' = RowsProcessed + 1
                   => Val(clean_provider_data(Head(batch))) \in sess'.t.providers]_vars

\* a second run has processed, for a provider that the store holds with the
\* name and zip of the file's last row, the file's first row, which has another
\* name and zip
C28_Witness ==
    /\ runNo = 2
    /\ pc \in {"PROCESSING", "STREAMING"}
    /\ ~sess.broken
    /\ \E p \in durable.providers : \E q \in sess.t.providers :
          /\ p.provider_id = q.provider_id
          /\ p.provider_name = <<"B">> /\ q.provider_name = <<"A">>
          /\ p.provider_zip_code = <<"1","2","3","4","5">>
          /\ q.provider_zip_code = <<"0","0","1","2","3">>

\* C29: get_or_create_procedure, when it finds the Procedure of the row's code
\* and does not raise, leaves that Procedure with its id and code and with the
\* row's description and adds none; in no step does the code of a Procedure of
\* the transaction or of the store change.
C29_ProcedureCodeKept ==
    [][/\ \A p \in sess.t.procedures : \A q \in sess'.t.procedures :
             p.id = q.id => p.ms_drg_code = q.ms_drg_code
       /\ \A p \in durable.procedures : \A q \in durable'.procedures :
             p.id = q.id => p.ms_drg_code = q.ms_drg_code
       /\ (/\ pc = "PROCESSING"
           /\ iteration.at = "procedure"
           /\ iteration'.at = "association")
          => \A old \in sess.t.procedures :
                old.ms_drg_code = Val(clean_procedure_data(Head(batch))).ms_drg_code
                => /\ [id |-> old.id, ms_drg_code |-> old.ms_drg_code,
                        ms_drg_description |->
                            Val(clean_procedure_data(Head(batch))).ms_drg_description]
                         \in sess'.t.procedures
                   /\ Cardinality(sess'.t.procedures) = Cardinality(sess.t.procedures)
                   /\ IsNone(sess'.pending)]_vars

\* a second run has given the Procedure the store holds with the description
\* of the file's last row the description of the file's first row
C29_Witness ==
    /\ runNo = 2
    /\ ~sess.broken
    /\ \E p \in durable.procedures : \E q \in sess.t.procedures :
          /\ p.id = q.id
          /\ p.ms_drg_code = q.ms_drg_code
          /\ p.ms_drg_description = <<"k">>
          /\ q.ms_drg_description = <<"h">>

RECURSIVE RegionRowsUpTo(_)
\* the rows of region NY in the chunks 1..i that were not abandoned
RegionRowsUpTo(i) ==
    IF i = 0 THEN 0
    ELSE RegionRowsUpTo(i - 1)
         + (IF i \in hist.abandoned THEN 0
            ELSE Len(SelectSeq(Chunk(i),
                               LAMBDA row : RegionIsNY(row.Rndrng_Prvdr_State_Abrvtn))))

\* C30: while a run goes on, every row of region NY of the chunks handled so
\* far and not abandoned is counted as processed or as errored, or is still
\* to be processed, and none twice; when the run has committed, the counts add
\* up to the number of such rows of the file, and the chunk count is the number
\* of chunks of the file, skipped and abandoned ones included.
C30_CountsConserved ==
    /\ pc \in {"STREAMING", "PROCESSING", "COMMITTED", "CLOSED"} =>
          RowsProcessed + RowsInError + Len(batch) = RegionRowsUpTo(chunkIdx)
    /\ pc \in {"COMMITTED", "CLOSED"} =>
          /\ chunkIdx = NumChunks
          /\ processed = 0 /\ errors = 0 /\ batch = <<>>
          /\ totals.processed + totals.errors = RegionRowsUpTo(NumChunks)

\* a run over two chunks has completed: the first chunk was abandoned, the
\* row of the second was processed
C30_Witness ==
    /\ pc = "CLOSED"
    /\ NumChunks = 2
    /\ hist.abandoned = {1}
    /\ totals.processed = 1
    /\ totals.errors = 0

\* the transactions of the two processes were open at the same time
Overlapped == hist.overlap \/ peer.hist.overlap

\* C22: two ETL processes on one store are not kept apart.  The store never
\* holds two Providers with one provider_id; it holds two rows for one natural
\* key of another table, or a process fails at its commit, only if the two
\* transactions were open at the same time.
C22_RaceNeedsOverlap ==
    /\ \A p, q \in durable.providers : p.provider_id = q.provider_id => p = q
    /\ ~KeysUnique(durable) => Overlapped
    /\ (hist.failedAt = "commit" \/ peer.hist.failedAt = "commit") => Overlapped

\* both processes looked the code of their row up, found no Procedure and added
\* one, and both have committed: the store holds two Procedures for one code
C22_Witness ==
    /\ pc = "CLOSED"
    /\ peer.pc = "CLOSED"
    /\ Cardinality(durable.providers) = 2
    /\ \E p, q \in durable.procedures : p.id # q.id /\ p.ms_drg_code = q.ms_drg_code

(***************************************************************************)
(* C31: a row that was counted as an error after get_or_create_provider    *)
(* had returned leaves no Provider in the committed state: a committed     *)
(* Provider row that such a row wrote was in the store when the run began, *)
(* or was written by a row of the run that was counted as processed.       *)
(***************************************************************************)
C31_ErroredRowsLeaveNoTrace ==
    pc = "COMMITTED" =>
        \A p \in hist.errWrote :
            p \in durable.providers =>
                p \in hist.startDurable.providers \/ p \in hist.okWrote

(***************************************************************************)
(* C32: when a run has committed, every provider that had a row counted as *)
(* processed in the run has exactly one Rating row in the store.           *)
(***************************************************************************)
C32_ProcessedProviderRated ==
    pc = "COMMITTED" =>
        \A p \in hist.okWrote :
            Cardinality(FindRating(durable, p.provider_id)) = 1

\* run_etl has returned or raised
RunEnded == pc \in {"CLOSED", "FAILED"}

(***************************************************************************)
(* C33: on every path of run_etl on which the engine was created, the      *)
(* engine is open and not disposed while the run goes on, and has been     *)
(* disposed exactly once when run_etl has returned or raised; the run ends *)
(* by raising exactly when an exception ended it.                          *)
(***************************************************************************)
C33_EngineDisposedOnce ==
    /\ (engine.run = runNo /\ engine.run # 0) =>
           IF RunEnded THEN ~engine.open /\ engine.disposals = 1
                       ELSE engine.open /\ engine.disposals = 0
    /\ RunEnded => (pc = "FAILED" <=> hist.failedAt # "no")

====
